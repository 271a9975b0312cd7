------------------------- MODULE RestoreWorkflowProofs -------------------------
(***************************************************************************)
(* Proofs about RestoreWorkflow: a plan under review is the one that was   *)
(* agreed to, and a dialog follows the job that was reviewed.  Both rest   *)
(* on one invariant, WorkflowInv, which ties every call that is in flight  *)
(* or waits in the queue to the state of the dialog that waits for it.     *)
(***************************************************************************)
EXTENDS RestoreWorkflow, ListsProofs

-----------------------------------------------------------------------------
(* Types.                                                                  *)

Statuses == {"running", "cancelling"} \cup Terminal
Policies == {"completeOnly", "zeroFillAndMap"}
SetupCodes == {"setup", "destination", "other"}
JobCodes == {"internal", "other"}
JobKinds == {"poll", "cancel", "open"}

Request == [scan : Scans, destination : Destinations \cup {None},
            revision : 0 .. MaxRevision, policy : Policies]
Agreement == [scan : Scans, destination : Destinations \cup {None},
              revision : 0 .. MaxRevision]
Selection == [present : {TRUE}, revision : 0 .. MaxRevision,
              selected : SUBSET Candidates]
ShownType == [scan : {NoScan} \cup {Scan(s) : s \in Scans},
              selection : {Absent} \cup Selection]

Ui == [phase : {"idle", "selectingDestination", "setup", "planning", "review",
                "starting", "active", "finished", "trackingLost", "error"},
       destination : Destinations \cup {None}, policy : Policies,
       consent : BOOLEAN, plan : Plans \cup {None},
       job : [plan : Plans \cup {None}, status : Statuses \cup {None}],
       operation : {"idle", "polling", "cancelRequest", "opening"},
       cancelRequested : BOOLEAN,
       error : {None} \cup SetupCodes \cup JobCodes]

(* A call, or an operation that waits.                                     *)
AnswerType == [ok : {TRUE}, value : Destinations \cup Plans \cup Statuses \cup {None}]
           \cup [ok : {FALSE}, code : SetupCodes \cup JobCodes]
CallType == [kind : Commands, generation : Nat, intent : Nat,
          subject : {None} \cup Request \cup Plans,
          at : {"sent", "answered"}, answer : {None} \cup AnswerType]

Refs == [generation : Nat, intent : Nat, busy : SUBSET Commands,
         queue : Seq({c \in CallType : c.kind \in JobKinds /\ c.at = "sent"}),
         running : JobKinds \cup {None}, pollQueued : BOOLEAN,
         cancelPending : BOOLEAN, openPending : BOOLEAN, failures : Nat,
         timer : BOOLEAN]

TypesOK ==
    /\ scans \in [Scans -> Session]
    /\ plans \in [Plans -> {NoPlan} \cup Request]
    /\ jobs \in [Plans -> Statuses \cup {None}]
    /\ shown \in ShownType /\ update \in {None, "queued", "taken"}
    /\ ui \in Ui /\ refs \in Refs /\ calls \in Seq(CallType)
    /\ agreed \in {NoConsent} \cup Agreement

-----------------------------------------------------------------------------
(* The dialog.  u is its state, r its refs, sh what is shown around it, p  *)
(* the plans, j the jobs and ag what the user has agreed to.               *)

(* The selection that is shown is not ahead of the session's, and behind   *)
(* it when an update was taken.                                            *)
EnvOK(sh, up, sc) ==
    /\ sh.selection.present => sh.scan # NoScan
    /\ up # None => sh.selection.present
    /\ \A s \in Scans : sh.scan = Scan(s) /\ sh.selection.present
                        /\ sc[s].kept = "kept" =>
          /\ sh.selection.revision <= sc[s].revision
          /\ up = "taken" => sh.selection.revision < sc[s].revision

(* What a plan has to be of.                                               *)
Wanted(u, sh) == [scan |-> sh.scan.scan, destination |-> u.destination,
                  revision |-> sh.selection.revision, policy |-> u.policy]
AgreedTo(u, sh) == [scan |-> sh.scan.scan, destination |-> u.destination,
                    revision |-> sh.selection.revision]
MayPlan(u, sh) ==
    NeedsConsent(sh.selection.selected) => u.policy = "zeroFillAndMap" /\ u.consent

(* The dialog is open over a selection.                                    *)
OpenOK(u, sh) == u.phase # "idle" => sh.selection.present

(* A consent is to zero filling, and in the phases that lead to a start it *)
(* is to what is shown.                                                    *)
ConsentOK(u, sh, ag) ==
    /\ u.consent => u.policy = "zeroFillAndMap" /\ u.phase # "selectingDestination"
    /\ u.consent /\ u.phase \in {"setup", "planning", "review"} =>
          ag = AgreedTo(u, sh)

ReviewOK(u, sh, p) ==
    u.phase = "review" =>
       /\ MayPlan(u, sh)
       /\ u.plan \in Plans /\ p[u.plan] = Wanted(u, sh)

(* A status that was true of a job, which has status b by now.             *)
Behind(a, b) ==
    /\ a \in Statuses /\ b \in Statuses
    /\ Forward[a] <= Forward[b] /\ (a \in Terminal => a = b)

JobOK(u, j) ==
    /\ u.job # NoJob <=> u.phase \in {"active", "finished", "trackingLost"}
    /\ u.job # NoJob => /\ u.job.plan = u.plan /\ u.plan \in Plans
                        /\ Behind(u.job.status, j[u.plan])
    /\ u.phase = "finished" => u.job.status \in Terminal

TimerOK(u, r) == r.timer => u.phase = "active" /\ u.job.status \notin Terminal

(* What a call is by its kind, whenever it was made.                       *)
Fits(c, p) ==
    LET answered == c.at = "answered"
    IN  /\ c.kind = "plan" => c.subject \in Request
        /\ c.kind \in {"start"} \cup JobKinds => c.subject \in Plans
        /\ answered => c.answer \in AnswerType
        /\ answered /\ c.answer.ok =>
              /\ c.kind = "destination" => c.answer.value \in Destinations \cup {None}
              /\ c.kind = "plan" => /\ c.answer.value \in Plans
                                    /\ p[c.answer.value] = c.subject
              /\ c.kind = "start" => c.answer.value = "running"
              /\ c.kind \in {"poll", "cancel"} =>
                    c.answer.value \in Statuses \cup {None}

(* It counts if its answer will change the phase of the dialog.            *)
OfDialog(c, r) == c.generation = r.generation
Counts(c, r, sh) ==
    /\ OfDialog(c, r)
    /\ \/ c.kind \in {"destination", "start"}
       \/ c.kind = "plan" /\ c.subject.revision = sh.selection.revision
       \/ c.kind \in {"poll", "cancel"} /\ c.intent = r.intent

(* The dialog waits for a call that counts; its job is the one of its      *)
(* operations, and an answer to a poll is between what is shown of the     *)
(* job and what the job has come to.                                       *)
Awaited(c, u, r, sh, j) ==
    /\ c.generation <= r.generation
    /\ OfDialog(c, r) =>
          /\ c.intent <= r.intent
          /\ c.kind = "plan" => /\ sh.selection.present
                                /\ c.subject.scan = sh.scan.scan
                                /\ c.subject.revision <= sh.selection.revision
          /\ c.kind \in {"start"} \cup JobKinds => c.subject = u.plan
          /\ c.kind = "start" /\ c.at = "answered" /\ c.answer.ok =>
                Behind("running", j[u.plan])
          /\ c.kind \in JobKinds => u.job # NoJob
    /\ Counts(c, r, sh) =>
          /\ ~r.timer
          /\ c.kind = "destination" => u.phase = "selectingDestination"
          /\ c.kind = "plan" => /\ u.phase = "planning"
                                /\ c.subject = Wanted(u, sh) /\ MayPlan(u, sh)
          /\ c.kind = "start" => u.phase = "starting"
          /\ c.kind \in JobKinds =>
                /\ u.phase = "active" /\ u.job.status \notin Terminal
                /\ c.at = "answered" /\ c.answer.ok =>
                      Behind(u.job.status, c.answer.value)
                      /\ Behind(c.answer.value, j[u.plan])

(* All that is in flight or waits; one of them counts.                     *)
AllAwaited(ops, u, r, sh, p, j) ==
    \A i \in DOMAIN ops : Fits(ops[i], p) /\ Awaited(ops[i], u, r, sh, j)
OneCounts(ops, r, sh) ==
    \A i, k \in DOMAIN ops :
       Counts(ops[i], r, sh) /\ Counts(ops[k], r, sh) => i = k

DialogOK(ops, u, r, sh, p, j, ag) ==
    /\ OpenOK(u, sh) /\ ConsentOK(u, sh, ag) /\ ReviewOK(u, sh, p)
    /\ JobOK(u, j) /\ TimerOK(u, r)
    /\ AllAwaited(ops, u, r, sh, p, j) /\ OneCounts(ops, r, sh)

WorkflowInv ==
    /\ TypesOK /\ EnvOK(shown, update, scans)
    /\ DialogOK(calls \o refs.queue, ui, refs, shown, plans, jobs, agreed)

-----------------------------------------------------------------------------
(* Statuses.                                                               *)

LEMMA ForwardIs ==
    /\ Forward["running"] = 0 /\ Forward["cancelling"] = 1
    /\ Forward["completed"] = 2 /\ Forward["stopped"] = 2
BY DEF Forward

LEMMA BehindItself == \A a \in Statuses : Behind(a, a)
BY ForwardIs DEF Behind, Statuses, Terminal

LEMMA BehindOnwards ==
    \A a, b, c : Behind(a, b) /\ Behind(b, c) => Behind(a, c)
BY ForwardIs DEF Behind, Statuses, Terminal

LEMMA BehindCancelled ==
    \A a \in Statuses : Behind(a, StatusAfterCancel(a))
BY ForwardIs DEF Behind, Statuses, Terminal, StatusAfterCancel

LEMMA BehindEnded ==
    \A a \in {"running", "cancelling"}, b \in Terminal : Behind(a, b)
BY ForwardIs DEF Behind, Statuses, Terminal

LEMMA NoStatus == None \notin Statuses
BY DEF None, Statuses, Terminal

-----------------------------------------------------------------------------
(* Calls that come and go.                                                 *)

(* All of few is also in many, at a place of its own, and not at place i.  *)
Without(few, many, i) ==
    \E f \in [DOMAIN few -> DOMAIN many \ {i}] :
       /\ \A k \in DOMAIN few : few[k] = many[f[k]]
       /\ \A k, l \in DOMAIN few : f[k] = f[l] => k = l

LEMMA Joined ==
    ASSUME NEW S, NEW s \in Seq(S), NEW q \in Seq(S)
    PROVE  /\ s \o q \in Seq(S) /\ Len(s) \in Nat /\ Len(q) \in Nat
           /\ Len(s \o q) = Len(s) + Len(q)
           /\ DOMAIN (s \o q) = 1 .. Len(s) + Len(q)
           /\ \A k \in 1 .. Len(s) : (s \o q)[k] = s[k]
           /\ \A k \in 1 .. Len(q) : (s \o q)[Len(s) + k] = q[k]
OBVIOUS

LEMMA Removal ==
    ASSUME NEW S, NEW s \in Seq(S), NEW q \in Seq(S), NEW i \in DOMAIN s
    PROVE  /\ RemoveAt(s, i) \in Seq(S)
           /\ Without(RemoveAt(s, i) \o q, s \o q, i)
           /\ i \in DOMAIN (s \o q) /\ (s \o q)[i] = s[i]
<1> DEFINE n == Len(s)
           t == RemoveAt(s, i)
           f == [k \in DOMAIN (t \o q) |-> IF k < i THEN k ELSE k + 1]
<1>1. n \in Nat /\ i \in 1 .. n
    OBVIOUS
<1>2. /\ t \in Seq(S) /\ Len(t) = n - 1
      /\ \A k \in 1 .. n - 1 : t[k] = IF k < i THEN s[k] ELSE s[k + 1]
    <2> DEFINE a == SubSeq(s, 1, i - 1)
               b == SubSeq(s, i + 1, n)
    <2>1. a \in Seq(S) /\ Len(a) = i - 1 /\ \A k \in 1 .. i - 1 : a[k] = s[k]
        BY <1>1
    <2>2. /\ b \in Seq(S) /\ Len(b) = n - i
          /\ \A k \in 1 .. n - i : b[k] = s[i + k]
        BY <1>1
    <2>3. t = a \o b
        BY DEF RemoveAt
    <2> HIDE DEF a, b, t
    <2>4. t \in Seq(S) /\ Len(t) = n - 1
        BY <2>1, <2>2, <2>3, <1>1
    <2>5. ASSUME NEW k \in 1 .. n - 1 PROVE t[k] = IF k < i THEN s[k] ELSE s[k + 1]
        <3>1. CASE k < i
            BY <3>1, <2>1, <2>2, <2>3, <1>1
        <3>2. CASE ~(k < i)
            <4>1. PICK l \in 1 .. n - i : k = (i - 1) + l
                <5>1. k - (i - 1) \in 1 .. n - i /\ k = (i - 1) + (k - (i - 1))
                    BY <3>2, <1>1
                <5> QED
                    BY <5>1
            <4>2. (a \o b)[Len(a) + l] = b[l]
                <5>1. l \in 1 .. Len(b) /\ a \in Seq(S) /\ b \in Seq(S)
                    BY <4>1, <2>1, <2>2
                <5> QED
                    BY <5>1, Joined
            <4>3. k = Len(a) + l /\ i + l = k + 1
                BY <4>1, <2>1, <1>1
            <4>4. t[k] = b[l]
                BY <4>2, <4>3, <2>3
            <4>5. t[k] = s[i + l]
                BY <4>1, <4>4, <2>2
            <4> QED
                BY <4>3, <4>5, <3>2
        <3> QED
            BY <3>1, <3>2
    <2> QED
        BY <2>4, <2>5
<1> HIDE DEF t
<1>3. /\ Len(t \o q) = n - 1 + Len(q) /\ DOMAIN (t \o q) = 1 .. n - 1 + Len(q)
      /\ Len(s \o q) = n + Len(q) /\ DOMAIN (s \o q) = 1 .. n + Len(q)
      /\ Len(q) \in Nat
    BY <1>1, <1>2, Joined
<1>4. ASSUME NEW k \in DOMAIN (t \o q)
      PROVE  /\ f[k] \in DOMAIN (s \o q) \ {i}
             /\ (t \o q)[k] = (s \o q)[f[k]]
    <2>1. f[k] \in DOMAIN (s \o q) \ {i}
        BY <1>1, <1>3
    <2>2. CASE k <= n - 1
        <3>1. (t \o q)[k] = t[k] /\ k \in 1 .. n - 1
            BY <2>2, <1>1, <1>2, <1>3, Joined
        <3>2. f[k] <= n /\ f[k] >= 1
            BY <2>2, <1>1, <1>3
        <3>3. (s \o q)[f[k]] = s[f[k]]
            BY <3>2, <1>1, <2>1, <1>3
        <3> QED
            BY <3>1, <3>3, <1>2, <2>1
    <2>3. CASE ~(k <= n - 1)
        <3>0. PICK l \in 1 .. Len(q) : k = (n - 1) + l
            <4>1. k - (n - 1) \in 1 .. Len(q) /\ k = (n - 1) + (k - (n - 1))
                BY <2>3, <1>1, <1>3
            <4> QED
                BY <4>1
        <3>1. (t \o q)[k] = q[l]
            BY <3>0, <1>2, Joined
        <3>2. f[k] = k + 1 /\ k + 1 > n
            BY <2>3, <1>1, <1>3
        <3>3. (s \o q)[k + 1] = q[l]
            <4>1. k + 1 = n + l
                BY <3>0, <1>1, <1>3
            <4> QED
                BY <4>1, Joined
        <3> QED
            BY <3>1, <3>2, <3>3, <2>1
    <2> QED
        BY <2>2, <2>3
<1>5. \A k, l \in DOMAIN (t \o q) : f[k] = f[l] => k = l
    BY <1>1, <1>3
<1>6. f \in [DOMAIN (t \o q) -> DOMAIN (s \o q) \ {i}]
    BY <1>4
<1>7. Without(t \o q, s \o q, i)
    <2> HIDE DEF f
    <2> QED
        BY <1>4, <1>5, <1>6 DEF Without
<1>8. i \in DOMAIN (s \o q) /\ (s \o q)[i] = s[i]
    BY <1>1, <1>3
<1> QED
    BY <1>2, <1>7, <1>8 DEF t

(* What is left of the calls is awaited as before; of the call that counts *)
(* and went, nothing is left that counts.                                  *)
NoneCounts(ops, r, sh) == \A i \in DOMAIN ops : ~Counts(ops[i], r, sh)

LEMMA FewerAwaited ==
    ASSUME NEW few, NEW many, NEW i, NEW u, NEW r, NEW sh, NEW p, NEW j,
           Without(few, many, i), AllAwaited(many, u, r, sh, p, j)
    PROVE  AllAwaited(few, u, r, sh, p, j)
BY DEF Without, AllAwaited

LEMMA FewerCount ==
    ASSUME NEW few, NEW many, NEW i, NEW r, NEW sh,
           Without(few, many, i), OneCounts(many, r, sh)
    PROVE  /\ OneCounts(few, r, sh)
           /\ i \in DOMAIN many /\ Counts(many[i], r, sh) => NoneCounts(few, r, sh)
<1>1. PICK f \in [DOMAIN few -> DOMAIN many \ {i}] :
         /\ \A k \in DOMAIN few : few[k] = many[f[k]]
         /\ \A k, l \in DOMAIN few : f[k] = f[l] => k = l
    BY DEF Without
<1>2. \A k \in DOMAIN few : f[k] \in DOMAIN many /\ f[k] # i
    BY <1>1
<1>3. OneCounts(few, r, sh)
    BY <1>1, <1>2, Zenon DEF OneCounts
<1>4. ASSUME i \in DOMAIN many, Counts(many[i], r, sh) PROVE NoneCounts(few, r, sh)
    BY <1>1, <1>2, <1>4, Zenon DEF OneCounts, NoneCounts
<1> QED
    BY <1>3, <1>4

(* A call that is added where none counts is the only one that may.        *)
With(more, ops, c, m) ==
    /\ m \in DOMAIN more /\ more[m] = c
    /\ \A k \in DOMAIN more : k # m => \E l \in DOMAIN ops : more[k] = ops[l]

LEMMA OneAdded ==
    ASSUME NEW more, NEW ops, NEW c, NEW m, NEW u, NEW r, NEW sh, NEW p, NEW j,
           With(more, ops, c, m), NoneCounts(ops, r, sh),
           AllAwaited(ops, u, r, sh, p, j), Fits(c, p), Awaited(c, u, r, sh, j)
    PROVE  AllAwaited(more, u, r, sh, p, j) /\ OneCounts(more, r, sh)
<1>1. AllAwaited(more, u, r, sh, p, j)
    BY DEF With, AllAwaited
<1>2. \A k \in DOMAIN more : k # m => ~Counts(more[k], r, sh)
    BY DEF With, NoneCounts
<1>3. OneCounts(more, r, sh)
    BY <1>2, Zenon DEF OneCounts
<1> QED
    BY <1>1, <1>3

LEMMA AddedLast ==
    ASSUME NEW S, NEW s \in Seq(S), NEW q \in Seq(S), NEW c \in S
    PROVE  /\ With(Append(s, c) \o q, s \o q, c, Len(s) + 1)
           /\ With(s \o Append(q, c), s \o q, c, Len(s) + Len(q) + 1)
           /\ Append(s, c) \in Seq(S) /\ Append(q, c) \in Seq(S)
<1>1. PICK n \in Nat : n = Len(s)
    OBVIOUS
<1>2. PICK m \in Nat : m = Len(q)
    OBVIOUS
<1>3. /\ DOMAIN (s \o q) = 1 .. n + m
      /\ \A k \in 1 .. n : (s \o q)[k] = s[k]
      /\ \A k \in 1 .. m : (s \o q)[n + k] = q[k]
    BY <1>1, <1>2, Joined
<1>4. With(Append(s, c) \o q, s \o q, c, n + 1)
    <2>1. PICK t : t = Append(s, c) /\ t \in Seq(S)
        <3>1. Append(s, c) \in Seq(S)
            OBVIOUS
        <3> QED
            BY <3>1
    <2>2. /\ Len(t) = n + 1 /\ t[n + 1] = c
          /\ \A k \in 1 .. n : t[k] = s[k]
        BY <1>1, <2>1
    <2>3. /\ DOMAIN (t \o q) = 1 .. n + 1 + m
          /\ \A k \in 1 .. n + 1 : (t \o q)[k] = t[k]
          /\ \A k \in 1 .. m : (t \o q)[n + 1 + k] = q[k]
        BY <1>1, <1>2, <2>1, <2>2, Joined
    <2>4. ASSUME NEW k \in 1 .. n + 1 + m, k # n + 1
          PROVE  \E l \in 1 .. n + m : (t \o q)[k] = (s \o q)[l]
        <3>1. CASE k <= n
            BY <3>1, <2>2, <2>3, <1>3
        <3>2. CASE k > n + 1
            <4>1. PICK l \in 1 .. m : k = n + 1 + l
                <5>1. k - (n + 1) \in 1 .. m
                    BY <3>2
                <5> QED
                    BY <5>1
            <4>2. (t \o q)[k] = (s \o q)[n + l] /\ n + l \in 1 .. n + m
                BY <4>1, <2>3, <1>1, <1>2, <1>3
            <4> QED
                BY <4>2
        <3>3. k <= n \/ k > n + 1
            BY <2>4
        <3> QED
            BY <3>1, <3>2, <3>3
    <2>5. n + 1 \in DOMAIN (t \o q) /\ (t \o q)[n + 1] = c
        <3>1. n + 1 \in 1 .. n + 1 /\ n + 1 \in 1 .. n + 1 + m
            OBVIOUS
        <3> QED
            BY <3>1, <2>2, <2>3
    <2> QED
        BY <2>1, <2>3, <2>4, <2>5, <1>3, Zenon DEF With
<1>5. With(s \o Append(q, c), s \o q, c, n + m + 1)
    <2>1. PICK t : t = Append(q, c) /\ t \in Seq(S)
        <3>1. Append(q, c) \in Seq(S)
            OBVIOUS
        <3> QED
            BY <3>1
    <2>2. /\ Len(t) = m + 1 /\ t[m + 1] = c
          /\ \A k \in 1 .. m : t[k] = q[k]
        BY <1>2, <2>1
    <2>3. /\ DOMAIN (s \o t) = 1 .. n + (m + 1)
          /\ \A k \in 1 .. n : (s \o t)[k] = s[k]
          /\ \A k \in 1 .. m + 1 : (s \o t)[n + k] = t[k]
        BY <1>1, <1>2, <2>1, <2>2, Joined
    <2>4. ASSUME NEW k \in 1 .. n + (m + 1), k # n + m + 1
          PROVE  k \in 1 .. n + m /\ (s \o t)[k] = (s \o q)[k]
        <3>1. CASE k <= n
            BY <3>1, <2>3, <1>3
        <3>2. CASE k > n
            <4>1. PICK l \in 1 .. m : k = n + l
                <5>1. k - n \in 1 .. m
                    BY <3>2, <2>4
                <5> QED
                    BY <5>1
            <4> QED
                BY <4>1, <2>2, <2>3, <1>3
        <3>3. k <= n \/ k > n
            BY <2>4
        <3> QED
            BY <3>1, <3>2, <3>3
    <2>5. n + m + 1 \in DOMAIN (s \o t) /\ (s \o t)[n + m + 1] = c
        <3>1. n + m + 1 = n + (m + 1) /\ m + 1 \in 1 .. m + 1
            OBVIOUS
        <3> QED
            BY <3>1, <2>2, <2>3
    <2> QED
        BY <2>1, <2>3, <2>4, <2>5, <1>1, <1>2, <1>3 DEF With
<1> QED
    BY <1>1, <1>2, <1>4, <1>5

-----------------------------------------------------------------------------
(* The dialog, seen from its calls.                                        *)

(* The dialog shows which call it waits for.                               *)
Waiting == {"selectingDestination", "planning", "starting", "active"}

LEMMA WhoWaits ==
    ASSUME NEW ops, NEW u, NEW r, NEW sh, NEW p, NEW j,
           AllAwaited(ops, u, r, sh, p, j), u.phase \notin Waiting \/ r.timer
    PROVE  NoneCounts(ops, r, sh)
<1> SUFFICES ASSUME NEW i \in DOMAIN ops, Counts(ops[i], r, sh) PROVE FALSE
    BY DEF NoneCounts
<1>1. Awaited(ops[i], u, r, sh, j)
    BY DEF AllAwaited
<1> QED
    BY <1>1 DEF Awaited, Counts, Waiting, JobKinds

(* Without a job and with no call that counts, the dialog may become       *)
(* anything: what is in flight does not speak of it.                       *)
LEMMA AtRest ==
    ASSUME NEW ops, NEW u, NEW r, NEW sh, NEW p, NEW j, NEW v, NEW w,
           AllAwaited(ops, u, r, sh, p, j), NoneCounts(ops, r, sh),
           u.job = NoJob, w.generation = r.generation, w.intent = r.intent
    PROVE  AllAwaited(ops, v, w, sh, p, j) /\ NoneCounts(ops, w, sh)
<1>1. ASSUME NEW i \in DOMAIN ops
      PROVE  /\ Fits(ops[i], p) /\ Awaited(ops[i], v, w, sh, j)
             /\ ~Counts(ops[i], w, sh)
    <2>1. /\ Fits(ops[i], p) /\ Awaited(ops[i], u, r, sh, j)
          /\ ~Counts(ops[i], r, sh)
        BY DEF AllAwaited, NoneCounts
    <2>2. ~Counts(ops[i], w, sh)
        BY <2>1 DEF Counts, OfDialog
    <2>3. OfDialog(ops[i], w) => ops[i].kind \notin {"start"} \cup JobKinds
        BY <2>1 DEF Awaited, Counts, OfDialog
    <2>4. Awaited(ops[i], v, w, sh, j)
        BY <2>1, <2>2, <2>3 DEF Awaited, OfDialog
    <2> QED
        BY <2>1, <2>2, <2>4
<1> QED
    BY <1>1 DEF AllAwaited, NoneCounts

(* Another generation: all that is in flight is of an earlier one.         *)
LEMMA NewGeneration ==
    ASSUME NEW ops \in Seq(CallType), NEW few, NEW u, NEW r \in Refs, NEW sh,
           NEW p, NEW j, NEW v, NEW w, NEW sh2,
           AllAwaited(ops, u, r, sh, p, j), w.generation = r.generation + 1,
           \A k \in DOMAIN few : \E l \in DOMAIN ops : few[k] = ops[l]
    PROVE  AllAwaited(few, v, w, sh2, p, j) /\ NoneCounts(few, w, sh2)
<1>1. ASSUME NEW k \in DOMAIN few
      PROVE  /\ Fits(few[k], p) /\ Awaited(few[k], v, w, sh2, j)
             /\ ~Counts(few[k], w, sh2)
    <2>1. PICK l \in DOMAIN ops : few[k] = ops[l]
        OBVIOUS
    <2>2. /\ Fits(few[k], p) /\ few[k].generation <= r.generation
        BY <2>1 DEF AllAwaited, Awaited
    <2>3. few[k].generation \in Nat /\ r.generation \in Nat
        <3>1. ops[l] \in CallType
            OBVIOUS
        <3> QED
            BY <2>1, <3>1 DEF CallType, Refs
    <2>4. few[k].generation <= w.generation /\ ~OfDialog(few[k], w)
        BY <2>2, <2>3 DEF OfDialog
    <2> QED
        BY <2>2, <2>4 DEF Awaited, Counts
<1> QED
    BY <1>1 DEF AllAwaited, NoneCounts

LEMMA NobodyCounts ==
    ASSUME NEW ops, NEW r, NEW sh, NoneCounts(ops, r, sh)
    PROVE  OneCounts(ops, r, sh)
BY DEF NoneCounts, OneCounts

(* The dialog is what it was, but for what the invariant does not read.    *)
Alike(u, v) ==
    /\ v.phase = u.phase /\ v.destination = u.destination /\ v.policy = u.policy
    /\ v.consent = u.consent /\ v.plan = u.plan /\ v.job = u.job
AlikeRefs(r, w) ==
    w.generation = r.generation /\ w.intent = r.intent /\ w.timer = r.timer

LEMMA SameDialog ==
    ASSUME NEW ops, NEW u, NEW r, NEW sh, NEW p, NEW j, NEW ag, NEW v, NEW w,
           Alike(u, v), AlikeRefs(r, w), DialogOK(ops, u, r, sh, p, j, ag)
    PROVE  DialogOK(ops, v, w, sh, p, j, ag)
<1>1. /\ Wanted(v, sh) = Wanted(u, sh) /\ AgreedTo(v, sh) = AgreedTo(u, sh)
      /\ MayPlan(v, sh) = MayPlan(u, sh)
      /\ \A c : OfDialog(c, w) = OfDialog(c, r) /\ Counts(c, w, sh) = Counts(c, r, sh)
    BY DEF Alike, AlikeRefs, Wanted, AgreedTo, MayPlan, OfDialog, Counts
<1>2. /\ OpenOK(v, sh) /\ ConsentOK(v, sh, ag) /\ ReviewOK(v, sh, p)
      /\ JobOK(v, j) /\ TimerOK(v, w)
    BY <1>1 DEF DialogOK, OpenOK, ConsentOK, ReviewOK, JobOK, TimerOK, Alike, AlikeRefs
<1>3. ASSUME NEW c, Awaited(c, u, r, sh, j) PROVE Awaited(c, v, w, sh, j)
    BY <1>1, <1>3 DEF Awaited, Alike, AlikeRefs
<1>4. AllAwaited(ops, v, w, sh, p, j)
    BY <1>3 DEF DialogOK, AllAwaited
<1>5. OneCounts(ops, w, sh)
    BY <1>1 DEF DialogOK, OneCounts
<1> QED
    BY <1>2, <1>4, <1>5 DEF DialogOK

-----------------------------------------------------------------------------
(* The queue.                                                              *)

LEMMA QueueType ==
    ASSUME NEW r \in Refs
    PROVE  /\ r.queue \in Seq(CallType)
           /\ \A i \in DOMAIN r.queue :
                 r.queue[i].kind \in JobKinds /\ r.queue[i].at = "sent"
<1> DEFINE Q == {c \in CallType : c.kind \in JobKinds /\ c.at = "sent"}
<1>1. r.queue \in Seq(Q)
    BY DEF Refs
<1>2. Q \subseteq CallType /\ \A c \in Q : c.kind \in JobKinds /\ c.at = "sent"
    OBVIOUS
<1> HIDE DEF Q
<1>3. \A i \in DOMAIN r.queue : r.queue[i] \in Q
    BY <1>1
<1>4. r.queue \in Seq(CallType)
    BY <1>1, <1>2
<1> QED
    BY <1>2, <1>3, <1>4

(* What Pump does to a dialog.                                             *)
LEMMA PumpKeeps ==
    ASSUME NEW u \in Ui, NEW r \in Refs, NEW sent \in Seq(CallType),
           Pump(u, r, sent)
    PROVE  /\ ui' \in Ui /\ refs' \in Refs /\ calls' \in Seq(CallType)
           /\ calls' \o refs'.queue = sent \o r.queue
           /\ Alike(u, ui') /\ AlikeRefs(r, refs')
<1>1. CASE r.running # None \/ r.queue = <<>>
    BY <1>1 DEF Pump, Alike, AlikeRefs
<1>2. CASE ~(r.running # None \/ r.queue = <<>>)
    <2> DEFINE Q == {c \in CallType : c.kind \in JobKinds /\ c.at = "sent"}
    <2>1. PICK q : q = r.queue
        OBVIOUS
    <2>2. q \in Seq(Q) /\ q # <<>>
        BY <1>2, <2>1 DEF Refs
    <2>3. PICK op : op = Head(q)
        OBVIOUS
    <2>4. PICK rest : rest = Tail(q)
        OBVIOUS
    <2>5. op \in Q /\ rest \in Seq(Q) /\ q = <<op>> \o rest
        <3> HIDE DEF Q
        <3> QED
            BY <2>2, <2>3, <2>4
    <2>6. op \in CallType /\ op.kind \in JobKinds
        BY <2>5
    <2>7. rest \in Seq(CallType) /\ q \in Seq(CallType)
        <3>1. Q \subseteq CallType
            OBVIOUS
        <3> HIDE DEF Q
        <3> QED
            BY <2>2, <2>5, <3>1
    <2>8. /\ ui' = IF IsPoll(op) THEN [u EXCEPT !.operation = "polling"] ELSE u
          /\ refs' = [r EXCEPT !.queue = rest, !.running = op.kind]
          /\ calls' = Append(sent, op)
        BY <1>2, <2>1, <2>3, <2>4 DEF Pump
    <2>9. ui' \in Ui /\ Alike(u, ui')
        BY <2>8 DEF Ui, Alike
    <2>10. refs' \in Refs /\ AlikeRefs(r, refs') /\ refs'.queue = rest
        BY <2>5, <2>6, <2>8 DEF Refs, AlikeRefs
    <2>11. calls' \in Seq(CallType)
        BY <2>6, <2>8
    <2>12. Append(sent, op) \o rest = sent \o (<<op>> \o rest)
        BY <2>6, <2>7
    <2> QED
        BY <2>1, <2>5, <2>8, <2>9, <2>10, <2>11, <2>12
<1> QED
    BY <1>1, <1>2

-----------------------------------------------------------------------------
(* What a step of the dialog may do to the job that is shown.              *)

Onward(u, v) ==
    /\ u.job # NoJob /\ v.job # NoJob =>
          /\ v.job.plan = u.job.plan
          /\ Forward[u.job.status] <= Forward[v.job.status]
    /\ u.phase \in {"trackingLost", "finished"} => v.phase \in {u.phase, "idle"}

LEMMA OnwardAlike ==
    ASSUME NEW u, NEW v, NEW j, JobOK(u, j), v.phase = u.phase, v.job = u.job
    PROVE  Onward(u, v)
BY ForwardIs DEF Onward, JobOK, Behind, Statuses, Terminal

LEMMA OnwardWithout ==
    ASSUME NEW u, NEW v, NEW j, JobOK(u, j),
           u.phase \notin {"active", "finished", "trackingLost"} \/ v = InitialUi
    PROVE  Onward(u, v)
BY DEF Onward, JobOK, InitialUi

-----------------------------------------------------------------------------
(* What is shown around the dialog.                                        *)

LEMMA UiTypes ==
    /\ InitialUi \in Ui /\ InitialUi.job = NoJob /\ InitialUi.phase = "idle"
    /\ ~InitialUi.consent
BY DEF InitialUi, Ui, NoJob, Policies

LEMMA InFlight ==
    ASSUME TypesOK
    PROVE  /\ ui \in Ui /\ refs \in Refs /\ calls \in Seq(CallType)
           /\ refs.queue \in Seq(CallType)
           /\ calls \o refs.queue \in Seq(CallType)
<1>1. ui \in Ui /\ refs \in Refs /\ calls \in Seq(CallType)
    BY DEF TypesOK
<1>2. refs.queue \in Seq(CallType)
    BY <1>1, QueueType
<1> QED
    BY <1>1, <1>2, Joined

LEMMA RenewedType ==
    ASSUME NEW r \in Refs, NEW x, x = Renewed(r)
    PROVE  /\ x \in Refs /\ x.generation = r.generation + 1 /\ x.queue = <<>>
           /\ x.timer = FALSE
<1> DEFINE Q == Seq({c \in CallType : c.kind \in JobKinds /\ c.at = "sent"})
<1>1. <<>> \in Q
    OBVIOUS
<1>2. r \in [generation : Nat, intent : Nat, busy : SUBSET Commands,
               queue : Q, running : JobKinds \cup {None},
               pollQueued : BOOLEAN, cancelPending : BOOLEAN,
               openPending : BOOLEAN, failures : Nat, timer : BOOLEAN]
    BY DEF Refs
<1> HIDE DEF Q
<1> DEFINE R == [generation : Nat, intent : Nat, busy : SUBSET Commands,
                 queue : Q, running : JobKinds \cup {None},
                 pollQueued : BOOLEAN, cancelPending : BOOLEAN,
                 openPending : BOOLEAN, failures : Nat, timer : BOOLEAN]
<1>3. PICK a : a = [r EXCEPT !.generation = @ + 1, !.intent = 0, !.queue = <<>>]
    OBVIOUS
<1>4. a \in R /\ a.generation = r.generation + 1 /\ a.queue = <<>>
    <2>1. PICK g \in Nat : g = r.generation + 1
        BY <1>2
    <2>2. a = [r EXCEPT !.generation = g, !.intent = 0, !.queue = <<>>]
        BY <1>3, <2>1
    <2> QED
        BY <1>1, <1>2, <2>1, <2>2
<1>5. PICK b : b = [a EXCEPT !.pollQueued = FALSE, !.cancelPending = FALSE,
                             !.openPending = FALSE]
    OBVIOUS
<1>6. b \in R /\ b.generation = a.generation /\ b.queue = a.queue
    BY <1>4, <1>5
<1>7. PICK d : d = [b EXCEPT !.failures = 0, !.timer = FALSE]
    OBVIOUS
<1>8. d \in R /\ d.generation = b.generation /\ d.queue = b.queue /\ d.timer = FALSE
    BY <1>6, <1>7
<1>9. x = d
    BY <1>3, <1>5, <1>7 DEF Renewed
<1> QED
    BY <1>4, <1>6, <1>8, <1>9 DEF Q, Refs

(* The dialog was left.                                                    *)
LEMMA Left ==
    ASSUME WorkflowInv, ui' = InitialUi, refs' \in {Renewed(refs),
              [Renewed(refs) EXCEPT !.busy = {}]},
           calls' = calls, agreed' = NoConsent, plans' = plans, jobs' = jobs
    PROVE  /\ ui' \in Ui /\ refs' \in Refs /\ Onward(ui, ui')
           /\ DialogOK(calls' \o refs'.queue, ui', refs', shown', plans', jobs',
                       agreed')
<1>1. /\ TypesOK
      /\ AllAwaited(calls \o refs.queue, ui, refs, shown, plans, jobs)
      /\ JobOK(ui, jobs)
    BY DEF WorkflowInv, DialogOK
<1>2. /\ refs \in Refs /\ calls \in Seq(CallType) /\ refs.queue \in Seq(CallType)
      /\ calls \o refs.queue \in Seq(CallType)
    BY <1>1, InFlight
<1>3. PICK w : w = refs'
    OBVIOUS
<1>4. /\ w \in Refs /\ w.generation = refs.generation + 1 /\ w.queue = <<>>
      /\ w.timer = FALSE
    <2>1. PICK x : x = Renewed(refs)
        OBVIOUS
    <2>2. /\ x \in Refs /\ x.generation = refs.generation + 1 /\ x.queue = <<>>
          /\ x.timer = FALSE
        BY <1>2, <2>1, RenewedType
    <2>3. CASE w = x
        BY <2>2, <2>3
    <2>4. CASE w = [x EXCEPT !.busy = {}]
        BY <2>2, <2>4 DEF Refs
    <2> QED
        BY <1>3, <2>1, <2>3, <2>4
<1>5. \A k \in DOMAIN (calls \o w.queue) :
         \E l \in DOMAIN (calls \o refs.queue) :
            (calls \o w.queue)[k] = (calls \o refs.queue)[l]
    <2>1. calls \o w.queue = calls
        BY <1>2, <1>4
    <2>2. \A k \in DOMAIN calls : k \in DOMAIN (calls \o refs.queue)
                                  /\ (calls \o refs.queue)[k] = calls[k]
        BY <1>2
    <2> QED
        BY <2>1, <2>2
<1>6. PICK v : v = ui'
    OBVIOUS
<1>7. /\ AllAwaited(calls \o w.queue, v, w, shown', plans, jobs)
      /\ NoneCounts(calls \o w.queue, w, shown')
    BY <1>1, <1>2, <1>4, <1>5, NewGeneration
<1>8. OneCounts(calls \o w.queue, w, shown')
    BY <1>7, NobodyCounts
<1>9. /\ v \in Ui /\ v.phase = "idle" /\ v.job = NoJob /\ ~v.consent
    BY <1>6, UiTypes
<1>10. /\ OpenOK(v, shown') /\ ConsentOK(v, shown', agreed') /\ ReviewOK(v, shown', plans)
       /\ JobOK(v, jobs) /\ TimerOK(v, w)
    BY <1>9, <1>4 DEF OpenOK, ConsentOK, ReviewOK, JobOK, TimerOK
<1>11. Onward(ui, v)
    BY <1>1, <1>6, OnwardWithout
<1> QED
    BY <1>3, <1>4, <1>6, <1>7, <1>8, <1>9, <1>10, <1>11 DEF DialogOK

(* The invariant of the next state, part by part.                          *)
LEMMA NextInv ==
    ASSUME scans' \in [Scans -> Session],
           plans' \in [Plans -> {NoPlan} \cup Request],
           jobs' \in [Plans -> Statuses \cup {None}],
           shown' \in ShownType, update' \in {None, "queued", "taken"},
           ui' \in Ui, refs' \in Refs, calls' \in Seq(CallType),
           agreed' \in {NoConsent} \cup Agreement,
           EnvOK(shown', update', scans'),
           DialogOK(calls' \o refs'.queue, ui', refs', shown', plans', jobs', agreed')
    PROVE  WorkflowInv'
BY DEF WorkflowInv, TypesOK

LEMMA HideScanStep ==
    ASSUME WorkflowInv, HideScan
    PROVE  WorkflowInv' /\ Onward(ui, ui')
<1>1. /\ shown' = NothingShown /\ update' = None /\ UNCHANGED nativeVars
      /\ ui' = InitialUi /\ refs' = [Renewed(refs) EXCEPT !.busy = {}]
      /\ agreed' = NoConsent /\ calls' = calls
    BY DEF HideScan, ScanEffect
<1>2. /\ ui' \in Ui /\ refs' \in Refs /\ Onward(ui, ui')
      /\ DialogOK(calls' \o refs'.queue, ui', refs', shown', plans', jobs', agreed')
    BY <1>1, Left DEF nativeVars
<1>3. shown' \in ShownType /\ EnvOK(shown', update', scans')
    BY <1>1 DEF ShownType, NothingShown, EnvOK, Absent
<1>4. TypesOK
    BY DEF WorkflowInv
<1> QED
    BY <1>1, <1>2, <1>3, <1>4, NextInv DEF TypesOK, nativeVars, storeVars

LEMMA ShowScanStep ==
    ASSUME WorkflowInv, NEW s \in Scans, ShowScan(s)
    PROVE  WorkflowInv' /\ Onward(ui, ui')
<1>1. /\ StoreSession(s) /\ shown' = [NothingShown EXCEPT !.scan = Scan(s)]
      /\ update' = None /\ plans' = plans /\ jobs' = jobs
      /\ ui' = InitialUi /\ refs' = [Renewed(refs) EXCEPT !.busy = {}]
      /\ agreed' = NoConsent /\ calls' = calls
    BY DEF ShowScan, ScanEffect
<1>2. /\ ui' \in Ui /\ refs' \in Refs /\ Onward(ui, ui')
      /\ DialogOK(calls' \o refs'.queue, ui', refs', shown', plans', jobs', agreed')
    BY <1>1, Left
<1>3. shown' \in ShownType /\ EnvOK(shown', update', scans')
    BY <1>1 DEF ShownType, NothingShown, EnvOK, Absent
<1>4. TypesOK
    BY DEF WorkflowInv
<1>5. scans' \in [Scans -> Session]
    <2>1. scans \in [Scans -> Session]
        BY <1>4 DEF TypesOK
    <2>2. Evicted \in Session
        BY StoreAssumption DEF Evicted, NewSession, Session
    <2>3. [scans[s] EXCEPT !.kept = "kept"] \in Session
        BY <2>1 DEF Session
    <2>4. PICK kept : kept = [scans EXCEPT ![s].kept = "kept"]
        OBVIOUS
    <2>5. kept \in [Scans -> Session]
        BY <2>1, <2>3, <2>4
    <2>6. PICK h : h = Head(order)
        OBVIOUS
    <2>7. scans' = kept \/ scans' = [kept EXCEPT ![h] = Evicted]
        BY <1>1, <2>4, <2>6 DEF StoreSession
    <2> QED
        BY <2>2, <2>5, <2>7
<1> QED
    BY <1>1, <1>2, <1>3, <1>4, <1>5, NextInv DEF TypesOK

LEMMA CloseStep ==
    ASSUME WorkflowInv, Close
    PROVE  WorkflowInv' /\ Onward(ui, ui')
<1>1. /\ ui' = InitialUi /\ refs' = Renewed(refs) /\ agreed' = NoConsent
      /\ UNCHANGED <<nativeVars, envVars, calls>>
    BY DEF Close
<1>2. /\ ui' \in Ui /\ refs' \in Refs /\ Onward(ui, ui')
      /\ DialogOK(calls' \o refs'.queue, ui', refs', shown', plans', jobs', agreed')
    BY <1>1, Left DEF nativeVars
<1>3. TypesOK /\ EnvOK(shown', update', scans')
    BY <1>1 DEF WorkflowInv, nativeVars, envVars, storeVars
<1> QED
    BY <1>1, <1>2, <1>3, NextInv DEF TypesOK, nativeVars, storeVars, envVars

(* The dialog does not see what happens to the session.                    *)
LEMMA ClickSelectionStep ==
    ASSUME WorkflowInv, ClickSelection
    PROVE  WorkflowInv' /\ Onward(ui, ui')
<1>1. /\ shown.selection.present /\ update' = "queued"
      /\ UNCHANGED <<nativeVars, shown, ui, refs, calls, agreed>>
    BY DEF ClickSelection
<1>2. EnvOK(shown', update', scans')
    BY <1>1 DEF WorkflowInv, EnvOK, nativeVars, storeVars
<1>3. DialogOK(calls' \o refs'.queue, ui', refs', shown', plans', jobs', agreed')
    BY <1>1 DEF WorkflowInv, nativeVars
<1>4. TypesOK /\ JobOK(ui, jobs)
    BY DEF WorkflowInv, DialogOK
<1> QED
    BY <1>1, <1>2, <1>3, <1>4, NextInv, OnwardAlike DEF TypesOK, nativeVars, storeVars

LEMMA TakeUpdateStep ==
    ASSUME WorkflowInv, NEW chosen \in SUBSET Candidates, TakeUpdate(chosen)
    PROVE  WorkflowInv' /\ Onward(ui, ui')
<1>1. /\ update = "queued" /\ update' = "taken"
      /\ ChangeSelection(shown.scan.scan, chosen)
      /\ UNCHANGED <<plans, jobs, shown, ui, refs, calls, agreed>>
    BY DEF TakeUpdate
<1>2. TypesOK /\ JobOK(ui, jobs) /\ EnvOK(shown, update, scans)
    BY DEF WorkflowInv, DialogOK
<1>3. shown.selection.present /\ shown.scan # NoScan
    BY <1>1, <1>2 DEF EnvOK, None
<1>4. PICK s \in Scans : shown.scan = Scan(s) /\ shown.scan.scan = s
    BY <1>2, <1>3 DEF TypesOK, ShownType, Scan
<1>5. /\ scans \in [Scans -> Session] /\ shown.selection \in Selection
      /\ scans[s].kept = "kept" /\ scans[s].revision < MaxRevision
      /\ scans' = [scans EXCEPT ![s].selected = chosen, ![s].revision = @ + 1]
    BY <1>1, <1>2, <1>3, <1>4 DEF TypesOK, ShownType, Absent, ChangeSelection, Kept
<1>6. /\ scans' \in [Scans -> Session] /\ scans'[s].revision = scans[s].revision + 1
      /\ \A t \in Scans : t # s => scans'[t] = scans[t]
    BY <1>5, StoreAssumption DEF Session
<1>7. EnvOK(shown', update', scans')
    <2>1. shown.selection.revision <= scans[s].revision
        BY <1>2, <1>3, <1>4, <1>5 DEF EnvOK
    <2>2. scans[s].revision \in Nat /\ shown.selection.revision \in Nat
        BY <1>5 DEF Session, Selection
    <2>3. \A t \in Scans : shown.scan = Scan(t) => t = s
        BY <1>4 DEF Scan
    <2> QED
        BY <1>1, <1>3, <1>6, <2>1, <2>2, <2>3 DEF EnvOK
<1>8. DialogOK(calls' \o refs'.queue, ui', refs', shown', plans', jobs', agreed')
    BY <1>1 DEF WorkflowInv
<1> QED
    BY <1>1, <1>2, <1>6, <1>7, <1>8, NextInv, OnwardAlike DEF TypesOK

LEMMA ShowSelectionStep ==
    ASSUME WorkflowInv, ShowSelection
    PROVE  WorkflowInv' /\ Onward(ui, ui')
<1>1. /\ TypesOK /\ EnvOK(shown, update, scans)
      /\ DialogOK(calls \o refs.queue, ui, refs, shown, plans, jobs, agreed)
    BY DEF WorkflowInv
<1>2. /\ shown.scan # NoScan /\ Kept(shown.scan.scan)
      /\ ~shown.selection.present \/ update = "taken"
      /\ shown' = [shown EXCEPT !.selection =
            [present |-> TRUE, revision |-> scans[shown.scan.scan].revision,
             selected |-> scans[shown.scan.scan].selected]]
      /\ update' = None /\ ui' = SelectionEffect(ui)
      /\ UNCHANGED <<nativeVars, refs, calls, agreed>>
    BY DEF ShowSelection
<1>3. PICK s \in Scans : shown.scan = Scan(s) /\ shown.scan.scan = s
    BY <1>1, <1>2 DEF TypesOK, ShownType, Scan
<1>4. PICK chosen : chosen = [present |-> TRUE, revision |-> scans[s].revision,
                              selected |-> scans[s].selected]
    OBVIOUS
<1>5. /\ chosen \in Selection /\ chosen.present
      /\ chosen.revision = scans[s].revision /\ chosen.revision \in Nat
    BY <1>1, <1>4, StoreAssumption DEF TypesOK, Session, Selection
<1>6. PICK sh : sh = shown'
    OBVIOUS
<1>7. sh \in ShownType /\ sh.selection = chosen /\ sh.scan = Scan(s)
    BY <1>1, <1>2, <1>3, <1>4, <1>5, <1>6 DEF TypesOK, ShownType
<1>8. EnvOK(sh, update', scans')
    <2>1. \A t \in Scans : Scan(s) = Scan(t) => t = s
        BY DEF Scan
    <2>2. scans[s].revision \in Nat
        BY <1>5
    <2>3. update' # "taken" /\ update' = None /\ Scan(s) # NoScan /\ scans' = scans
        BY <1>2, <1>3 DEF None, nativeVars, storeVars
    <2> QED
        BY <1>5, <1>7, <2>1, <2>2, <2>3 DEF EnvOK
<1>9. PICK v : v = ui'
    OBVIOUS
<1>10. /\ v \in Ui
       /\ \/ v = ui /\ ui.phase \notin {"setup", "planning", "review"}
          \/ /\ v.phase = "setup" /\ v.job = NoJob /\ ~v.consent
             /\ ui.phase \in {"setup", "planning", "review"} /\ ui.job = NoJob
    <2>1. ui \in Ui /\ JobOK(ui, jobs)
        BY <1>1 DEF TypesOK, DialogOK
    <2>2. CASE ui.phase \in {"setup", "planning", "review"}
        <3>1. v = [ui EXCEPT !.phase = "setup", !.policy = "completeOnly",
                             !.consent = FALSE, !.plan = None, !.job = NoJob,
                             !.error = None]
            BY <1>2, <1>9, <2>2 DEF SelectionEffect
        <3>2. v \in Ui /\ v.phase = "setup" /\ v.job = NoJob /\ ~v.consent
            BY <2>1, <3>1 DEF Ui, NoJob, Policies
        <3> QED
            BY <2>1, <2>2, <3>2 DEF JobOK
    <2>3. CASE ui.phase \notin {"setup", "planning", "review"}
        BY <1>2, <1>9, <2>1, <2>3 DEF SelectionEffect
    <2> QED
        BY <2>2, <2>3
<1>11. PICK ops : ops = calls \o refs.queue
    OBVIOUS
<1>12. ASSUME NEW i \in DOMAIN ops
       PROVE  /\ Awaited(ops[i], v, refs, sh, jobs)
              /\ Counts(ops[i], refs, sh) => Counts(ops[i], refs, shown)
    <2>1. PICK c : c = ops[i]
        OBVIOUS
    <2>2. /\ c \in CallType /\ Fits(c, plans) /\ Awaited(c, ui, refs, shown, jobs)
        BY <1>1, <1>11, <2>1, InFlight DEF DialogOK, AllAwaited
    <2>3. ASSUME OfDialog(c, refs), c.kind = "plan"
          PROVE  /\ c.subject.revision < sh.selection.revision
                 /\ c.subject.scan = sh.scan.scan
        <3>1. /\ shown.selection.present /\ c.subject.scan = shown.scan.scan
              /\ c.subject.revision <= shown.selection.revision
            BY <2>2, <2>3 DEF Awaited
        <3>2. shown.selection.revision < scans[s].revision
            BY <1>1, <1>2, <1>3, <3>1 DEF EnvOK, Kept
        <3>3. /\ c.subject.revision \in Nat /\ shown.selection.revision \in Nat
              /\ scans[s].revision \in Nat
            <4>1. c.subject \in Request
                BY <2>2, <2>3 DEF Fits
            <4>2. shown.selection \in Selection
                BY <1>1, <3>1 DEF TypesOK, ShownType, Absent
            <4>3. 0 .. MaxRevision \subseteq Nat
                BY StoreAssumption
            <4>4. c.subject.revision \in Nat
                BY <4>1, <4>3 DEF Request
            <4>5. shown.selection.revision \in Nat
                BY <4>2, <4>3 DEF Selection
            <4> QED
                BY <1>5, <4>4, <4>5
        <3>4. sh.scan.scan = shown.scan.scan
            BY <1>3, <1>7
        <3> QED
            BY <1>5, <1>7, <3>1, <3>2, <3>3, <3>4
    <2>4. Counts(c, refs, sh) => Counts(c, refs, shown) /\ c.kind # "plan"
        <3>1. \A a, b \in Nat : a < b => a # b
            OBVIOUS
        <3>2. OfDialog(c, refs) /\ c.kind = "plan" =>
                 c.subject.revision # sh.selection.revision
            <4>1. c.kind = "plan" => c.subject.revision \in Nat
                BY <2>2, StoreAssumption DEF Fits, Request
            <4> QED
                BY <2>3, <4>1, <1>5, <1>7
        <3> QED
            BY <3>2 DEF Counts
    <2>5. OfDialog(c, refs) /\ c.kind \in {"start"} \cup JobKinds => v = ui
        BY <1>10, <2>2 DEF Awaited, Counts, JobKinds
    <2>6. Awaited(c, v, refs, sh, jobs)
        <3>1. OfDialog(c, refs) =>
                /\ c.intent <= refs.intent
                /\ c.kind = "plan" => /\ sh.selection.present
                                      /\ c.subject.scan = sh.scan.scan
                                      /\ c.subject.revision <= sh.selection.revision
            <4>1. OfDialog(c, refs) /\ c.kind = "plan" =>
                     c.subject.revision <= sh.selection.revision
                <5>1. c.kind = "plan" => c.subject.revision \in Nat
                    BY <2>2, StoreAssumption DEF Fits, Request
                <5> QED
                    BY <2>3, <5>1, <1>5, <1>7
            <4> QED
                BY <2>2, <2>3, <4>1, <1>5, <1>7 DEF Awaited
        <3>2. Counts(c, refs, sh) /\ c.kind = "destination" =>
                 v.phase = "selectingDestination"
            BY <1>10, <2>2, <2>4 DEF Awaited
        <3> QED
            BY <2>2, <2>4, <2>5, <3>1, <3>2 DEF Awaited, Counts
    <2> QED
        BY <2>1, <2>4, <2>6
<1>13. AllAwaited(ops, v, refs, sh, plans, jobs)
    BY <1>1, <1>11, <1>12 DEF DialogOK, AllAwaited
<1>14. OneCounts(ops, refs, sh)
    BY <1>1, <1>11, <1>12 DEF DialogOK, OneCounts
<1>15. /\ OpenOK(v, sh) /\ ConsentOK(v, sh, agreed) /\ ReviewOK(v, sh, plans)
       /\ JobOK(v, jobs) /\ TimerOK(v, refs)
    BY <1>1, <1>5, <1>7, <1>10
    DEF DialogOK, OpenOK, ConsentOK, ReviewOK, JobOK, TimerOK
<1>16. Onward(ui, v)
    BY <1>1, <1>10, OnwardAlike, OnwardWithout DEF DialogOK
<1>17. DialogOK(calls' \o refs'.queue, ui', refs', shown', plans', jobs', agreed')
    BY <1>2, <1>6, <1>9, <1>11, <1>13, <1>14, <1>15 DEF DialogOK, nativeVars
<1> QED
    BY <1>1, <1>2, <1>6, <1>7, <1>8, <1>9, <1>10, <1>16, <1>17, NextInv
    DEF TypesOK, nativeVars, storeVars

-----------------------------------------------------------------------------
(* The user.                                                               *)

(* In the setup nothing that is in flight speaks of the dialog.            *)
LEMMA Edited ==
    ASSUME WorkflowInv, ui.job = NoJob, ui.phase \notin Waiting, NEW v, NEW w,
           w.generation = refs.generation, w.intent = refs.intent
    PROVE  /\ AllAwaited(calls \o refs.queue, v, w, shown, plans, jobs)
           /\ NoneCounts(calls \o refs.queue, w, shown)
           /\ OneCounts(calls \o refs.queue, w, shown)
           /\ ~refs.timer /\ Onward(ui, v)
<1>1. /\ AllAwaited(calls \o refs.queue, ui, refs, shown, plans, jobs)
      /\ JobOK(ui, jobs) /\ TimerOK(ui, refs)
    BY DEF WorkflowInv, DialogOK
<1>2. NoneCounts(calls \o refs.queue, refs, shown)
    BY <1>1, WhoWaits
<1>3. /\ AllAwaited(calls \o refs.queue, v, w, shown, plans, jobs)
      /\ NoneCounts(calls \o refs.queue, w, shown)
    BY <1>1, <1>2, AtRest
<1>4. Onward(ui, v)
    BY <1>1, OnwardWithout DEF JobOK
<1> QED
    BY <1>1, <1>3, <1>4, NobodyCounts DEF TimerOK, Waiting

(* A call that the dialog makes and will wait for.                         *)
LEMMA Asked ==
    ASSUME WorkflowInv, ui.job = NoJob, ui.phase \notin Waiting,
           NEW kind \in Commands, NEW subject \in {None} \cup Request \cup Plans,
           Busy(kind), Sent(kind, subject), Fits(Call(refs, kind, subject), plans),
           NEW v,
           \A w : w.generation = refs.generation /\ w.intent = refs.intent
                  /\ w.timer = FALSE
                  => Awaited(Call(refs, kind, subject), v, w, shown, jobs)
    PROVE  /\ refs' \in Refs /\ calls' \in Seq(CallType)
           /\ AllAwaited(calls' \o refs'.queue, v, refs', shown, plans, jobs)
           /\ OneCounts(calls' \o refs'.queue, refs', shown)
           /\ ~refs'.timer /\ Onward(ui, v)
<1>1. /\ refs \in Refs /\ calls \in Seq(CallType) /\ refs.queue \in Seq(CallType)
    BY InFlight DEF WorkflowInv
<1>2. PICK c : c = Call(refs, kind, subject)
    OBVIOUS
<1>3. c \in CallType
    BY <1>1, <1>2 DEF Call, CallType, Refs
<1>4. PICK w : w = refs'
    OBVIOUS
<1>5. /\ w \in Refs /\ w.generation = refs.generation /\ w.intent = refs.intent
      /\ w.timer = refs.timer /\ w.queue = refs.queue
    BY <1>1, <1>4 DEF Busy, Refs
<1>6. /\ AllAwaited(calls \o refs.queue, v, w, shown, plans, jobs)
      /\ NoneCounts(calls \o refs.queue, w, shown)
      /\ ~refs.timer /\ Onward(ui, v)
    BY <1>5, Edited
<1>7. w.timer = FALSE
    BY <1>1, <1>5, <1>6 DEF Refs
<1>8. Awaited(c, v, w, shown, jobs) /\ Fits(c, plans)
    BY <1>2, <1>5, <1>7
<1>9. /\ calls' = Append(calls, c) /\ calls' \in Seq(CallType)
      /\ With(Append(calls, c) \o refs.queue, calls \o refs.queue, c, Len(calls) + 1)
    BY <1>1, <1>2, <1>3, AddedLast DEF Sent
<1>10. /\ AllAwaited(Append(calls, c) \o refs.queue, v, w, shown, plans, jobs)
       /\ OneCounts(Append(calls, c) \o refs.queue, w, shown)
    BY <1>6, <1>8, <1>9, OneAdded
<1> QED
    BY <1>4, <1>5, <1>6, <1>7, <1>9, <1>10

(* An edit of the setup.                                                   *)
LEMMA SetPolicyStep ==
    ASSUME WorkflowInv, NEW policy \in Policies, SetPolicy(policy)
    PROVE  WorkflowInv' /\ Onward(ui, ui')
<1>1. /\ InSetup /\ policy # ui.policy
      /\ ui' = [ui EXCEPT !.phase = "setup", !.policy = policy,
                          !.consent = @ /\ policy = "zeroFillAndMap",
                          !.plan = None, !.error = None]
      /\ UNCHANGED <<nativeVars, envVars, refs, calls, faults, agreed>>
    BY DEF SetPolicy
<1>2. /\ TypesOK /\ EnvOK(shown, update, scans) /\ ui \in Ui
      /\ DialogOK(calls \o refs.queue, ui, refs, shown, plans, jobs, agreed)
    BY DEF WorkflowInv, TypesOK
<1>3. ui.phase \in {"setup", "error"} /\ ui.job = NoJob
    BY <1>1, <1>2 DEF InSetup, DialogOK, JobOK
<1>4. ui.consent => ui.policy = "zeroFillAndMap"
    BY <1>2 DEF DialogOK, ConsentOK
<1>5. PICK v : v = ui'
    OBVIOUS
<1>6. /\ v \in Ui /\ v.phase = "setup" /\ v.job = NoJob
      /\ v.consent = (ui.consent /\ policy = "zeroFillAndMap")
    <2>1. PICK b \in BOOLEAN : b = (ui.consent /\ policy = "zeroFillAndMap")
        OBVIOUS
    <2>2. v = [ui EXCEPT !.phase = "setup", !.policy = policy, !.consent = b,
                         !.plan = None, !.error = None]
        BY <1>1, <1>5, <2>1
    <2>3. v \in Ui /\ v.phase = "setup" /\ v.job = NoJob /\ v.consent = b
        BY <1>2, <1>3, <2>2 DEF Ui
    <2> QED
        BY <2>1, <2>3
<1>7. ~v.consent
    BY <1>1, <1>4, <1>6
<1>8. /\ AllAwaited(calls \o refs.queue, v, refs, shown, plans, jobs)
      /\ OneCounts(calls \o refs.queue, refs, shown)
      /\ ~refs.timer /\ Onward(ui, v)
    BY <1>3, Edited DEF Waiting
<1>9. DialogOK(calls \o refs.queue, v, refs, shown, plans, jobs, agreed)
    BY <1>2, <1>3, <1>6, <1>7, <1>8 DEF DialogOK, OpenOK, ConsentOK, ReviewOK, JobOK, TimerOK
<1> QED
    BY <1>1, <1>2, <1>5, <1>6, <1>8, <1>9, NextInv
    DEF TypesOK, nativeVars, storeVars, envVars

LEMMA SetConsentStep ==
    ASSUME WorkflowInv, SetConsent
    PROVE  WorkflowInv' /\ Onward(ui, ui')
<1>1. /\ InSetup /\ ui.policy = "zeroFillAndMap"
      /\ ui' = [ui EXCEPT !.phase = "setup", !.consent = ~@, !.plan = None,
                          !.error = None]
      /\ agreed' = IF ui.consent THEN NoConsent ELSE AgreedTo(ui, shown)
      /\ UNCHANGED <<nativeVars, envVars, refs, calls, faults>>
    <2>1. AgreedTo(ui, shown) = [scan |-> shown.scan.scan, destination |-> ui.destination,
                                 revision |-> shown.selection.revision]
        BY DEF AgreedTo
    <2> QED
        BY <2>1 DEF SetConsent
<1>2. /\ TypesOK /\ EnvOK(shown, update, scans) /\ ui \in Ui
      /\ DialogOK(calls \o refs.queue, ui, refs, shown, plans, jobs, agreed)
    BY DEF WorkflowInv, TypesOK
<1>3. ui.phase \in {"setup", "error"} /\ ui.job = NoJob
    BY <1>1, <1>2 DEF InSetup, DialogOK, JobOK
<1>4. PICK v : v = ui'
    OBVIOUS
<1>5. /\ v \in Ui /\ v.phase = "setup" /\ v.job = NoJob /\ v.consent = ~ui.consent
      /\ v.policy = "zeroFillAndMap" /\ v.destination = ui.destination
    <2>1. PICK b \in BOOLEAN : b = ~ui.consent
        OBVIOUS
    <2>2. v = [ui EXCEPT !.phase = "setup", !.consent = b, !.plan = None,
                         !.error = None]
        BY <1>1, <1>4, <2>1
    <2> QED
        BY <1>1, <1>2, <1>3, <2>1, <2>2 DEF Ui
<1>6. /\ AllAwaited(calls \o refs.queue, v, refs, shown, plans, jobs)
      /\ OneCounts(calls \o refs.queue, refs, shown)
      /\ ~refs.timer /\ Onward(ui, v)
    BY <1>3, Edited DEF Waiting
<1>7. shown.selection.present /\ shown.scan.scan \in Scans
      /\ shown.selection \in Selection
    BY <1>2, <1>3 DEF DialogOK, OpenOK, EnvOK, TypesOK, ShownType, Absent, Scan
<1>8. agreed' \in {NoConsent} \cup Agreement
    BY <1>1, <1>2, <1>7 DEF AgreedTo, Agreement, Ui, Selection
<1>9. v.consent => agreed' = AgreedTo(v, shown)
    BY <1>1, <1>5 DEF AgreedTo
<1>10. DialogOK(calls \o refs.queue, v, refs, shown, plans, jobs, agreed')
    BY <1>5, <1>6, <1>7, <1>9
    DEF DialogOK, OpenOK, ConsentOK, ReviewOK, JobOK, TimerOK
<1> QED
    BY <1>1, <1>2, <1>4, <1>5, <1>6, <1>8, <1>10, NextInv
    DEF TypesOK, nativeVars, storeVars, envVars

LEMMA ChooseDestinationStep ==
    ASSUME WorkflowInv, ChooseDestination
    PROVE  WorkflowInv' /\ Onward(ui, ui')
<1>1. /\ Selected /\ ui.phase \in {"idle", "setup", "error"}
      /\ ui' = [InitialUi EXCEPT !.phase = "selectingDestination",
                                 !.operation = ui.operation]
      /\ Busy("destination") /\ Sent("destination", None) /\ agreed' = NoConsent
      /\ UNCHANGED <<nativeVars, envVars>>
    BY DEF ChooseDestination
<1>2. /\ TypesOK /\ EnvOK(shown, update, scans) /\ ui \in Ui /\ JobOK(ui, jobs)
    BY DEF WorkflowInv, TypesOK, DialogOK
<1>3. ui.job = NoJob /\ ui.phase \notin Waiting
    BY <1>1, <1>2 DEF JobOK, Waiting
<1>4. PICK v : v = ui'
    OBVIOUS
<1>5. /\ v \in Ui /\ v.phase = "selectingDestination" /\ v.job = NoJob /\ ~v.consent
    <2>1. ui.operation \in {"idle", "polling", "cancelRequest", "opening"}
        BY <1>2 DEF Ui
    <2> QED
        BY <1>1, <1>4, <2>1, UiTypes DEF InitialUi, Ui, Policies, NoJob
<1>6. Fits(Call(refs, "destination", None), plans)
    BY DEF Fits, Call, JobKinds
<1>7. ASSUME NEW w, w.generation = refs.generation, w.intent = refs.intent,
             w.timer = FALSE
      PROVE  Awaited(Call(refs, "destination", None), v, w, shown, jobs)
    <2>1. refs.generation \in Nat /\ refs.intent \in Nat
        BY <1>2 DEF TypesOK, Refs
    <2> QED
        BY <1>5, <1>7, <2>1 DEF Awaited, Call, OfDialog, Counts, JobKinds
<1>8. /\ refs' \in Refs /\ calls' \in Seq(CallType)
      /\ AllAwaited(calls' \o refs'.queue, v, refs', shown, plans, jobs)
      /\ OneCounts(calls' \o refs'.queue, refs', shown)
      /\ ~refs'.timer /\ Onward(ui, v)
    BY <1>1, <1>3, <1>6, <1>7, Asked DEF Commands
<1>9. DialogOK(calls' \o refs'.queue, v, refs', shown, plans, jobs, agreed')
    BY <1>1, <1>5, <1>8
    DEF DialogOK, OpenOK, ConsentOK, ReviewOK, JobOK, TimerOK, Selected
<1> QED
    BY <1>1, <1>2, <1>4, <1>5, <1>8, <1>9, NextInv
    DEF TypesOK, nativeVars, storeVars, envVars

LEMMA CreatePlanStep ==
    ASSUME WorkflowInv, CreatePlan
    PROVE  WorkflowInv' /\ Onward(ui, ui')
<1>1. /\ Selected /\ ui.phase = "setup" /\ MayPlan(ui, shown)
      /\ ui' = [ui EXCEPT !.phase = "planning", !.plan = None, !.error = None]
      /\ Busy("plan") /\ Sent("plan", Wanted(ui, shown))
      /\ UNCHANGED <<nativeVars, envVars, agreed>>
    BY DEF CreatePlan, MayPlan, Wanted
<1>2. /\ TypesOK /\ EnvOK(shown, update, scans) /\ ui \in Ui
      /\ JobOK(ui, jobs) /\ ConsentOK(ui, shown, agreed)
    BY DEF WorkflowInv, TypesOK, DialogOK
<1>3. ui.job = NoJob /\ ui.phase \notin Waiting
    BY <1>1, <1>2 DEF JobOK, Waiting
<1>4. PICK v : v = ui'
    OBVIOUS
<1>5. /\ v \in Ui /\ v.phase = "planning" /\ v.job = NoJob
      /\ v.consent = ui.consent /\ v.policy = ui.policy
      /\ v.destination = ui.destination
    BY <1>1, <1>2, <1>3, <1>4 DEF Ui
<1>6. shown.selection.present /\ shown.scan.scan \in Scans
      /\ shown.selection \in Selection
    BY <1>1, <1>2 DEF Selected, EnvOK, TypesOK, ShownType, Absent, Scan
<1>7. PICK wanted : wanted = Wanted(ui, shown)
    OBVIOUS
<1>8. /\ wanted \in Request /\ wanted.scan = shown.scan.scan
      /\ wanted.revision = shown.selection.revision
      /\ wanted = Wanted(v, shown) /\ MayPlan(v, shown)
      /\ wanted.revision \in Nat
    <2>1. /\ wanted \in Request /\ wanted.scan = shown.scan.scan
          /\ wanted.revision = shown.selection.revision
        BY <1>2, <1>6, <1>7 DEF Wanted, Request, Ui, Selection
    <2>2. wanted = Wanted(v, shown)
        BY <1>5, <1>7 DEF Wanted
    <2>3. MayPlan(v, shown)
        BY <1>1, <1>5 DEF MayPlan
    <2> QED
        BY <2>1, <2>2, <2>3, StoreAssumption DEF Request
<1>9. Fits(Call(refs, "plan", wanted), plans)
    BY <1>8 DEF Fits, Call, JobKinds
<1>10. ASSUME NEW w, w.generation = refs.generation, w.intent = refs.intent,
              w.timer = FALSE
       PROVE  Awaited(Call(refs, "plan", wanted), v, w, shown, jobs)
    <2>1. refs.generation \in Nat /\ refs.intent \in Nat
        BY <1>2 DEF TypesOK, Refs
    <2> QED
        BY <1>5, <1>6, <1>8, <1>10, <2>1 DEF Awaited, Call, OfDialog, Counts, JobKinds
<1>11. /\ refs' \in Refs /\ calls' \in Seq(CallType)
       /\ AllAwaited(calls' \o refs'.queue, v, refs', shown, plans, jobs)
       /\ OneCounts(calls' \o refs'.queue, refs', shown)
       /\ ~refs'.timer /\ Onward(ui, v)
    BY <1>1, <1>3, <1>7, <1>8, <1>9, <1>10, Asked DEF Commands
<1>12. ConsentOK(v, shown, agreed)
    BY <1>1, <1>2, <1>5 DEF ConsentOK, AgreedTo
<1>13. DialogOK(calls' \o refs'.queue, v, refs', shown, plans, jobs, agreed')
    BY <1>1, <1>5, <1>6, <1>11, <1>12
    DEF DialogOK, OpenOK, ReviewOK, JobOK, TimerOK
<1> QED
    BY <1>1, <1>2, <1>4, <1>5, <1>11, <1>13, NextInv
    DEF TypesOK, nativeVars, storeVars, envVars

LEMMA StartStep ==
    ASSUME WorkflowInv, Start
    PROVE  WorkflowInv' /\ Onward(ui, ui')
<1>1. /\ ui.phase = "review" /\ Busy("start") /\ Sent("start", ui.plan)
      /\ ui' = [ui EXCEPT !.phase = "starting", !.error = None]
      /\ UNCHANGED <<nativeVars, envVars, agreed>>
    BY DEF Start
<1>2. /\ TypesOK /\ EnvOK(shown, update, scans) /\ ui \in Ui
      /\ JobOK(ui, jobs) /\ ConsentOK(ui, shown, agreed) /\ ReviewOK(ui, shown, plans)
      /\ OpenOK(ui, shown)
    BY DEF WorkflowInv, TypesOK, DialogOK
<1>3. ui.job = NoJob /\ ui.phase \notin Waiting /\ ui.plan \in Plans
    BY <1>1, <1>2 DEF JobOK, Waiting, ReviewOK
<1>4. PICK v : v = ui'
    OBVIOUS
<1>5. /\ v \in Ui /\ v.phase = "starting" /\ v.job = NoJob /\ v.plan = ui.plan
      /\ v.consent = ui.consent /\ v.policy = ui.policy
    BY <1>1, <1>2, <1>3, <1>4 DEF Ui
<1>6. Fits(Call(refs, "start", ui.plan), plans)
    BY <1>3 DEF Fits, Call, JobKinds
<1>7. ASSUME NEW w, w.generation = refs.generation, w.intent = refs.intent,
             w.timer = FALSE
      PROVE  Awaited(Call(refs, "start", ui.plan), v, w, shown, jobs)
    <2>1. refs.generation \in Nat /\ refs.intent \in Nat
        BY <1>2 DEF TypesOK, Refs
    <2> QED
        BY <1>5, <1>7, <2>1 DEF Awaited, Call, OfDialog, Counts, JobKinds
<1>8. /\ refs' \in Refs /\ calls' \in Seq(CallType)
      /\ AllAwaited(calls' \o refs'.queue, v, refs', shown, plans, jobs)
      /\ OneCounts(calls' \o refs'.queue, refs', shown)
      /\ ~refs'.timer /\ Onward(ui, v)
    BY <1>1, <1>3, <1>6, <1>7, Asked DEF Commands
<1>9. DialogOK(calls' \o refs'.queue, v, refs', shown, plans, jobs, agreed')
    BY <1>1, <1>2, <1>5, <1>8
    DEF DialogOK, OpenOK, ConsentOK, ReviewOK, JobOK, TimerOK
<1> QED
    BY <1>1, <1>2, <1>4, <1>5, <1>8, <1>9, NextInv
    DEF TypesOK, nativeVars, storeVars, envVars

-----------------------------------------------------------------------------
(* The native side.                                                        *)

LEMMA NoRequest == NoPlan \notin Request
BY IdAssumption DEF NoPlan, Request

(* Plans stay, and jobs go forward.                                        *)
Onwards(j, k) == \A q \in Plans : j[q] \in Statuses => Behind(j[q], k[q])
PlansStay(p, o) == \A q \in Plans : p[q] # NoPlan => o[q] = p[q]

LEMMA LaterAwaited ==
    ASSUME NEW c, NEW u, NEW r, NEW sh, NEW p, NEW o, NEW j, NEW k,
           Onwards(j, k), PlansStay(p, o), Fits(c, p), Awaited(c, u, r, sh, j)
    PROVE  Fits(c, o) /\ Awaited(c, u, r, sh, k)
<1>1. Fits(c, o)
    BY NoRequest DEF Fits, PlansStay
<1>2. ASSUME NEW a, u.plan \in Plans, Behind(a, j[u.plan])
      PROVE  Behind(a, k[u.plan])
    <2>1. j[u.plan] \in Statuses
        BY <1>2 DEF Behind
    <2>2. Behind(j[u.plan], k[u.plan])
        BY <2>1, <1>2 DEF Onwards
    <2> QED
        BY <1>2, <2>2, BehindOnwards
<1>3. OfDialog(c, r) /\ c.kind \in {"start"} \cup JobKinds => u.plan \in Plans
    BY DEF Awaited, Fits
<1>4. Counts(c, r, sh) => OfDialog(c, r)
    BY DEF Counts
<1>5. OfDialog(c, r) /\ c.kind = "start" /\ c.at = "answered" /\ c.answer.ok =>
         Behind("running", k[u.plan])
    BY <1>2, <1>3 DEF Awaited
<1>6. Counts(c, r, sh) /\ c.kind \in JobKinds /\ c.at = "answered" /\ c.answer.ok =>
         Behind(c.answer.value, k[u.plan])
    BY <1>2, <1>3, <1>4 DEF Awaited
<1>7. Awaited(c, u, r, sh, k)
    BY <1>5, <1>6 DEF Awaited
<1> QED
    BY <1>1, <1>7

LEMMA LaterDialog ==
    ASSUME NEW u, NEW sh \in ShownType, NEW p, NEW o, NEW j, NEW k,
           Onwards(j, k), PlansStay(p, o), ReviewOK(u, sh, p), JobOK(u, j),
           u.phase = "review" => sh.scan # NoScan
    PROVE  ReviewOK(u, sh, o) /\ JobOK(u, k)
<1>1. ASSUME u.phase = "review" PROVE o[u.plan] = p[u.plan]
    <2>1. sh.scan.scan \in Scans
        BY <1>1 DEF ShownType, Scan
    <2>2. u.plan \in Plans /\ p[u.plan].scan = sh.scan.scan
        BY <1>1 DEF ReviewOK, Wanted
    <2>3. p[u.plan] # NoPlan
        BY <2>1, <2>2, IdAssumption DEF NoPlan
    <2> QED
        BY <2>2, <2>3 DEF PlansStay
<1>2. ReviewOK(u, sh, o)
    BY <1>1 DEF ReviewOK
<1>3. ASSUME u.job # NoJob PROVE Behind(u.job.status, k[u.plan])
    <2>1. u.plan \in Plans /\ Behind(u.job.status, j[u.plan])
        BY <1>3 DEF JobOK
    <2>2. j[u.plan] \in Statuses
        BY <2>1 DEF Behind
    <2>3. Behind(j[u.plan], k[u.plan])
        BY <2>1, <2>2 DEF Onwards
    <2> QED
        BY <2>1, <2>3, BehindOnwards
<1>4. JobOK(u, k)
    BY <1>3 DEF JobOK
<1> QED
    BY <1>2, <1>4

LEMMA JobStepStep ==
    ASSUME WorkflowInv, NEW q \in Plans, JobStep(q)
    PROVE  WorkflowInv' /\ Onward(ui, ui')
<1>1. /\ jobs[q] \in {"running", "cancelling"}
      /\ UNCHANGED <<storeVars, plans, envVars, ui, refs, calls, agreed>>
    BY DEF JobStep
<1>2. PICK status \in Terminal : jobs' = [jobs EXCEPT ![q] = status]
    BY DEF JobStep
<1>3. /\ TypesOK /\ EnvOK(shown, update, scans) /\ refs \in Refs
      /\ DialogOK(calls \o refs.queue, ui, refs, shown, plans, jobs, agreed)
    BY DEF WorkflowInv, TypesOK
<1>4. jobs' \in [Plans -> Statuses \cup {None}] /\ Onwards(jobs, jobs')
    <2>1. jobs \in [Plans -> Statuses \cup {None}] /\ status \in Statuses
        BY <1>2, <1>3 DEF TypesOK, Statuses
    <2>2. ASSUME NEW t \in Plans, jobs[t] \in Statuses PROVE Behind(jobs[t], jobs'[t])
        <3>1. CASE t = q
            BY <3>1, <1>1, <1>2, <2>1, BehindEnded
        <3>2. CASE t # q
            BY <3>2, <2>2, <1>2, <2>1, BehindItself
        <3> QED
            BY <3>1, <3>2
    <2> QED
        BY <1>2, <2>1, <2>2 DEF Onwards
<1>5. PlansStay(plans, plans)
    BY DEF PlansStay
<1>6. ReviewOK(ui, shown, plans) /\ JobOK(ui, jobs')
    BY <1>3, <1>4, <1>5, LaterDialog DEF DialogOK, TypesOK, OpenOK, EnvOK
<1>7. AllAwaited(calls \o refs.queue, ui, refs, shown, plans, jobs')
    BY <1>3, <1>4, <1>5, LaterAwaited DEF DialogOK, AllAwaited
<1>8. DialogOK(calls \o refs.queue, ui, refs, shown, plans, jobs', agreed)
    BY <1>3, <1>6, <1>7 DEF DialogOK
<1>9. Onward(ui, ui)
    BY <1>3, OnwardAlike DEF DialogOK
<1> QED
    BY <1>1, <1>3, <1>4, <1>8, <1>9, NextInv DEF TypesOK, storeVars, envVars

(* What a command does to the plans and the jobs.                          *)
LEMMA Executed ==
    ASSUME TypesOK, NEW c, Fits(c, plans), Execute(c)
    PROVE  /\ plans' \in [Plans -> {NoPlan} \cup Request]
           /\ jobs' \in [Plans -> Statuses \cup {None}]
           /\ PlansStay(plans, plans') /\ Onwards(jobs, jobs')
<1>1. /\ plans \in [Plans -> {NoPlan} \cup Request]
      /\ jobs \in [Plans -> Statuses \cup {None}]
    BY DEF TypesOK
<1>2. /\ plans' \in [Plans -> {NoPlan} \cup Request] /\ PlansStay(plans, plans')
    <2>1. CASE c.kind = "plan" /\ Holds(c.subject) /\ FreePlans # {}
        <3>1. PICK f : f = FreePlan
            OBVIOUS
        <3>2. f \in Plans /\ plans[f] = NoPlan
            BY <2>1, <3>1 DEF FreePlan, FreePlans
        <3>3. plans' = [plans EXCEPT ![f] = c.subject] /\ c.subject \in Request
            BY <2>1, <3>1 DEF Execute, Fits
        <3> QED
            BY <1>1, <3>2, <3>3 DEF PlansStay
    <2>2. CASE ~(c.kind = "plan" /\ Holds(c.subject) /\ FreePlans # {})
        BY <1>1, <2>2 DEF Execute, PlansStay
    <2> QED
        BY <2>1, <2>2
<1>3. jobs' \in [Plans -> Statuses \cup {None}] /\ Onwards(jobs, jobs')
    <2>1. CASE c.kind = "start" /\ CanStart(c.subject)
        <3>1. /\ c.subject \in Plans /\ jobs[c.subject] = None
              /\ jobs' = [jobs EXCEPT ![c.subject] = "running"]
            BY <2>1 DEF Execute, Fits, CanStart
        <3> QED
            BY <1>1, <3>1, NoStatus, BehindItself DEF Onwards, Statuses
    <2>2. CASE c.kind = "cancel"
        <3>1. /\ c.subject \in Plans
              /\ jobs' = [jobs EXCEPT ![c.subject] = StatusAfterCancel(@)]
            BY <2>2 DEF Execute, Fits, JobKinds
        <3>2. \A a \in Statuses \cup {None} :
                 StatusAfterCancel(a) \in Statuses \cup {None}
            BY DEF StatusAfterCancel, Statuses
        <3> QED
            BY <1>1, <3>1, <3>2, BehindItself, BehindCancelled DEF Onwards
    <2>3. CASE ~(c.kind = "start" /\ CanStart(c.subject)) /\ c.kind # "cancel"
        <3>1. jobs' = jobs
            BY <2>3 DEF Execute
        <3> QED
            BY <1>1, <3>1, BehindItself DEF Onwards
    <2> QED
        BY <2>1, <2>2, <2>3
<1> QED
    BY <1>2, <1>3

(* A call with its answer, in the place of the call.                       *)
LEMMA Replaced ==
    ASSUME NEW S, NEW s \in Seq(S), NEW q \in Seq(S), NEW i \in DOMAIN s,
           NEW d \in S
    PROVE  /\ [s EXCEPT ![i] = d] \in Seq(S)
           /\ DOMAIN ([s EXCEPT ![i] = d] \o q) = DOMAIN (s \o q)
           /\ i \in DOMAIN (s \o q) /\ (s \o q)[i] = s[i]
           /\ \A k \in DOMAIN (s \o q) :
                 ([s EXCEPT ![i] = d] \o q)[k] = IF k = i THEN d ELSE (s \o q)[k]
<1>1. PICK n \in Nat : n = Len(s)
    OBVIOUS
<1>2. PICK m \in Nat : m = Len(q)
    OBVIOUS
<1>3. PICK t : t = [s EXCEPT ![i] = d]
    OBVIOUS
<1>4. /\ t \in Seq(S) /\ Len(t) = n
      /\ \A k \in 1 .. n : t[k] = IF k = i THEN d ELSE s[k]
    BY <1>1, <1>3
<1>5. /\ DOMAIN (s \o q) = 1 .. n + m
      /\ \A k \in 1 .. n : (s \o q)[k] = s[k]
      /\ \A k \in 1 .. m : (s \o q)[n + k] = q[k]
    BY <1>1, <1>2, Joined
<1>6. /\ DOMAIN (t \o q) = 1 .. n + m
      /\ \A k \in 1 .. n : (t \o q)[k] = t[k]
      /\ \A k \in 1 .. m : (t \o q)[n + k] = q[k]
    <2>1. t \in Seq(S)
        BY <1>4
    <2>2. /\ DOMAIN (t \o q) = 1 .. Len(t) + Len(q)
          /\ \A k \in 1 .. Len(t) : (t \o q)[k] = t[k]
          /\ \A k \in 1 .. Len(q) : (t \o q)[Len(t) + k] = q[k]
        BY <2>1, Joined
    <2> QED
        BY <2>2, <1>2, <1>4
<1>7. i \in 1 .. n
    BY <1>1
<1>8. ASSUME NEW k \in 1 .. n + m
      PROVE  (t \o q)[k] = IF k = i THEN d ELSE (s \o q)[k]
    <2>1. CASE k <= n
        BY <2>1, <1>4, <1>5, <1>6, <1>1, <1>2
    <2>2. CASE k > n
        <3>1. k - n \in 1 .. m /\ k = n + (k - n) /\ k # i
            BY <2>2, <1>7, <1>1, <1>2
        <3> QED
            BY <3>1, <1>5, <1>6
    <2>3. k <= n \/ k > n
        BY <1>1, <1>2
    <2> QED
        BY <2>1, <2>2, <2>3
<1> QED
    BY <1>3, <1>4, <1>5, <1>6, <1>7, <1>8

(* The answer of a command that is carried out fits its call, and comes    *)
(* when the dialog waits for it.                                           *)
LEMMA TrueAnswer ==
    ASSUME WorkflowInv, NEW c \in CallType, NEW a \in Answers(c), Execute(c),
           Fits(c, plans), Awaited(c, ui, refs, shown, jobs),
           NEW d, d = [c EXCEPT !.at = "answered", !.answer = a]
    PROVE  d \in CallType /\ Fits(d, plans') /\ Awaited(d, ui, refs, shown, jobs')
<1>1. TypesOK /\ JobOK(ui, jobs)
    BY DEF WorkflowInv, DialogOK
<1>2. /\ jobs \in [Plans -> Statuses \cup {None}]
      /\ PlansStay(plans, plans') /\ Onwards(jobs, jobs')
      /\ jobs' \in [Plans -> Statuses \cup {None}]
    BY <1>1, Executed DEF TypesOK
<1>3. Fits(c, plans') /\ Awaited(c, ui, refs, shown, jobs')
    BY <1>2, LaterAwaited
<1>4. /\ d.kind = c.kind /\ d.generation = c.generation /\ d.intent = c.intent
      /\ d.subject = c.subject /\ d.at = "answered" /\ d.answer = a
    BY DEF CallType
<1>5. /\ OfDialog(d, refs) = OfDialog(c, refs)
      /\ Counts(d, refs, shown) = Counts(c, refs, shown)
    BY <1>4 DEF OfDialog, Counts
<1>6. \A x : Ok(x).ok /\ Ok(x).value = x /\ ~Error(x).ok
    BY DEF Ok, Error
<1>7. c.kind \in Commands
    BY DEF CallType
<1>8. /\ a \in AnswerType
      /\ a.ok =>
            /\ c.kind = "destination" => a.value \in Destinations \cup {None}
            /\ c.kind = "plan" => a.value \in Plans /\ plans'[a.value] = c.subject
            /\ c.kind = "start" => a.value = "running" /\ jobs'[c.subject] = "running"
            /\ c.kind \in {"poll", "cancel"} =>
                  /\ a.value = jobs'[c.subject]
                  /\ a.value \in Statuses \cup {None}
    <2>0. \A x \in Destinations \cup Plans \cup Statuses \cup {None} :
             Ok(x) \in AnswerType
        BY DEF Ok, AnswerType
    <2>1. CASE c.kind = "destination"
        <3>1. PICK x \in Destinations \cup {None} : a = Ok(x)
            BY <2>1 DEF Answers
        <3> QED
            BY <2>0, <2>1, <3>1, <1>6
    <2>2. CASE c.kind = "plan"
        <3>1. a = IF ~Holds(c.subject) THEN Error("setup")
                  ELSE IF FreePlans = {} THEN Error("other") ELSE Ok(FreePlan)
            BY <2>2 DEF Answers
        <3>2. CASE Holds(c.subject) /\ FreePlans # {}
            <4>1. PICK f : f = FreePlan
                OBVIOUS
            <4>2. f \in Plans
                BY <3>2, <4>1 DEF FreePlan, FreePlans
            <4>3. plans' = [plans EXCEPT ![f] = c.subject]
                BY <2>2, <3>2, <4>1 DEF Execute
            <4>4. plans'[f] = c.subject
                BY <4>2, <4>3, <1>1 DEF TypesOK
            <4>5. a = Ok(f)
                BY <3>1, <3>2, <4>1
            <4> QED
                BY <2>0, <2>2, <4>2, <4>4, <4>5, <1>6
        <3>3. CASE ~(Holds(c.subject) /\ FreePlans # {})
            <4>1. a \in {Error("setup"), Error("other")}
                BY <3>1, <3>3
            <4>2. a \in AnswerType /\ ~a.ok
                <5>1. \A x \in SetupCodes : Error(x) \in AnswerType /\ ~Error(x).ok
                    BY DEF Error, AnswerType
                <5> QED
                    BY <4>1, <5>1 DEF SetupCodes
            <4> QED
                BY <4>2
        <3> QED
            BY <3>2, <3>3
    <2>3. CASE c.kind = "start"
        <3>1. a = IF CanStart(c.subject) THEN Ok("running") ELSE Error("setup")
            BY <2>3 DEF Answers
        <3>2. CASE CanStart(c.subject)
            <4>1. jobs' = [jobs EXCEPT ![c.subject] = "running"] /\ c.subject \in Plans
                BY <2>3, <3>2 DEF Execute, Fits
            <4>2. jobs'[c.subject] = "running"
                BY <4>1, <1>2
            <4>3. "running" \in Statuses
                BY DEF Statuses
            <4> QED
                BY <2>0, <2>3, <3>1, <3>2, <4>2, <4>3, <1>6
        <3>3. CASE ~CanStart(c.subject)
            BY <3>1, <3>3 DEF Error, AnswerType, SetupCodes
        <3> QED
            BY <3>2, <3>3
    <2>4. CASE c.kind = "poll"
        <3>1. a = Ok(jobs[c.subject]) /\ jobs' = jobs /\ c.subject \in Plans
            BY <2>4 DEF Answers, Execute, Fits, JobKinds
        <3> QED
            BY <2>0, <2>4, <3>1, <1>2, <1>6
    <2>5. CASE c.kind = "cancel"
        <3>1. /\ a = Ok(StatusAfterCancel(jobs[c.subject])) /\ c.subject \in Plans
              /\ jobs' = [jobs EXCEPT ![c.subject] = StatusAfterCancel(@)]
            BY <2>5 DEF Answers, Execute, Fits, JobKinds
        <3>2. jobs'[c.subject] = StatusAfterCancel(jobs[c.subject])
            BY <3>1, <1>2
        <3> QED
            BY <2>0, <2>5, <3>1, <3>2, <1>2, <1>6
    <2>6. CASE c.kind = "open"
        <3>1. a = Ok(None)
            BY <2>6 DEF Answers
        <3> QED
            BY <2>0, <2>6, <3>1, <1>6
    <2> QED
        BY <2>1, <2>2, <2>3, <2>4, <2>5, <2>6, <1>7 DEF Commands
<1>9. d \in CallType
    BY <1>8 DEF CallType
<1>10. Fits(d, plans')
    BY <1>3, <1>4, <1>8 DEF Fits
<1>11. ASSUME Counts(c, refs, shown), c.kind \in JobKinds, a.ok
       PROVE  Behind(ui.job.status, a.value) /\ Behind(a.value, jobs'[ui.plan])
    <2>1. c.kind \in {"poll", "cancel"} /\ OfDialog(c, refs)
        BY <1>11 DEF Counts, JobKinds
    <2>2. c.subject = ui.plan /\ ui.job # NoJob /\ a.value = jobs'[ui.plan]
        BY <1>8, <1>11, <2>1 DEF Awaited, JobKinds
    <2>3. ui.plan \in Plans /\ Behind(ui.job.status, jobs[ui.plan])
        BY <1>1, <2>2 DEF JobOK
    <2>4. jobs[ui.plan] \in Statuses
        BY <2>3 DEF Behind
    <2>5. Behind(jobs[ui.plan], jobs'[ui.plan])
        BY <1>2, <2>3, <2>4 DEF Onwards
    <2>6. jobs'[ui.plan] \in Statuses
        BY <2>5 DEF Behind
    <2> QED
        BY <2>2, <2>3, <2>5, <2>6, BehindOnwards, BehindItself
<1>12. ASSUME OfDialog(c, refs), c.kind = "start", a.ok
       PROVE  Behind("running", jobs'[ui.plan])
    <2>1. jobs'[ui.plan] = "running"
        BY <1>8, <1>12 DEF Awaited
    <2> QED
        BY <2>1, BehindItself DEF Statuses
<1>13. Awaited(d, ui, refs, shown, jobs')
    BY <1>3, <1>4, <1>5, <1>11, <1>12 DEF Awaited
<1> QED
    BY <1>9, <1>10, <1>13

(* So does an error in place of it.                                        *)
LEMMA ErrorAnswer ==
    ASSUME NEW c \in CallType, NEW a \in AnswerType, ~a.ok, NEW p, NEW j, NEW d,
           Fits(c, p), Awaited(c, ui, refs, shown, j),
           d = [c EXCEPT !.at = "answered", !.answer = a]
    PROVE  d \in CallType /\ Fits(d, p) /\ Awaited(d, ui, refs, shown, j)
<1>1. /\ d.kind = c.kind /\ d.generation = c.generation /\ d.intent = c.intent
      /\ d.subject = c.subject /\ d.at = "answered" /\ d.answer = a
    BY DEF CallType
<1>2. /\ OfDialog(d, refs) = OfDialog(c, refs)
      /\ Counts(d, refs, shown) = Counts(c, refs, shown)
    BY <1>1 DEF OfDialog, Counts
<1>3. d \in CallType
    BY DEF CallType
<1>4. Fits(d, p)
    BY <1>1 DEF Fits
<1>5. Awaited(d, ui, refs, shown, j)
    BY <1>1, <1>2 DEF Awaited
<1> QED
    BY <1>3, <1>4, <1>5

LEMMA NativeCommandStep ==
    ASSUME WorkflowInv, NEW kind \in Commands, NativeCommand(kind)
    PROVE  WorkflowInv' /\ Onward(ui, ui')
<1>1. PICK i \in DOMAIN calls :
         /\ \/ /\ Execute(calls[i])
               /\ \E a \in Answers(calls[i]) : Answer(i, a)
            \/ /\ \E code \in Code(kind) : Answer(i, Error(code))
               /\ UNCHANGED nativeVars
            \/ /\ Execute(calls[i]) /\ Answer(i, Error(Lost(kind)))
         /\ UNCHANGED <<envVars, ui, refs, agreed>>
    BY DEF NativeCommand
<1>2. /\ TypesOK /\ EnvOK(shown, update, scans)
      /\ DialogOK(calls \o refs.queue, ui, refs, shown, plans, jobs, agreed)
    BY DEF WorkflowInv
<1>3. /\ refs \in Refs /\ calls \in Seq(CallType) /\ refs.queue \in Seq(CallType)
    BY <1>2, InFlight
<1>4. PICK ops : ops = calls \o refs.queue
    OBVIOUS
<1>5. PICK c : c = calls[i]
    OBVIOUS
<1>6. c \in CallType /\ i \in DOMAIN ops /\ ops[i] = c
    BY <1>3, <1>4, <1>5, Joined
<1>7. /\ AllAwaited(ops, ui, refs, shown, plans, jobs)
      /\ OneCounts(ops, refs, shown)
      /\ Fits(c, plans) /\ Awaited(c, ui, refs, shown, jobs)
    BY <1>2, <1>4, <1>6 DEF DialogOK, AllAwaited
<1>8. /\ plans' \in [Plans -> {NoPlan} \cup Request]
      /\ jobs' \in [Plans -> Statuses \cup {None}]
      /\ PlansStay(plans, plans') /\ Onwards(jobs, jobs')
      /\ UNCHANGED storeVars
    <2>1. CASE Execute(c)
        BY <1>2, <1>7, <2>1, Executed DEF Execute
    <2>2. CASE UNCHANGED nativeVars
        BY <1>2, <2>2, BehindItself DEF nativeVars, TypesOK, PlansStay, Onwards
    <2> QED
        BY <1>1, <1>5, <2>1, <2>2
<1>9. PICK d : /\ calls' = [calls EXCEPT ![i] = d]
               /\ d \in CallType /\ Fits(d, plans')
               /\ Awaited(d, ui, refs, shown, jobs')
               /\ Counts(d, refs, shown) = Counts(c, refs, shown)
    <2>1. ASSUME NEW a, Answer(i, a), NEW d,
                 d = [c EXCEPT !.at = "answered", !.answer = a]
          PROVE  /\ calls' = [calls EXCEPT ![i] = d]
                 /\ Counts(d, refs, shown) = Counts(c, refs, shown)
        <3>1. calls' = [calls EXCEPT ![i] = d]
            BY <1>3, <1>5, <2>1 DEF Answer
        <3>2. d.kind = c.kind /\ d.generation = c.generation /\ d.intent = c.intent
              /\ d.subject = c.subject
            BY <1>6, <2>1 DEF CallType
        <3>3. Counts(d, refs, shown) = Counts(c, refs, shown)
            BY <3>2 DEF Counts, OfDialog
        <3> QED
            BY <3>1, <3>3
    <2>2. PICK p : p = plans'
        OBVIOUS
    <2>3. PICK j : j = jobs'
        OBVIOUS
    <2>4. CASE Execute(c) /\ \E a \in Answers(c) : Answer(i, a)
        <3>1. PICK a \in Answers(c) : Answer(i, a)
            BY <2>4
        <3>2. PICK d : d = [c EXCEPT !.at = "answered", !.answer = a]
            OBVIOUS
        <3>3. /\ d \in CallType /\ Fits(d, plans')
              /\ Awaited(d, ui, refs, shown, jobs')
            BY <1>6, <1>7, <2>4, <3>1, <3>2, TrueAnswer
        <3>4. /\ calls' = [calls EXCEPT ![i] = d]
              /\ Counts(d, refs, shown) = Counts(c, refs, shown)
            BY <2>1, <3>1, <3>2
        <3> QED
            BY <3>3, <3>4
    <2>5. CASE \E code \in SetupCodes \cup JobCodes : Answer(i, Error(code))
        <3>1. PICK code \in SetupCodes \cup JobCodes : Answer(i, Error(code))
            BY <2>5
        <3>2. PICK d : d = [c EXCEPT !.at = "answered", !.answer = Error(code)]
            OBVIOUS
        <3>3. Fits(c, p) /\ Awaited(c, ui, refs, shown, j)
            BY <1>7, <1>8, <2>2, <2>3, LaterAwaited
        <3>4. d \in CallType /\ Fits(d, p) /\ Awaited(d, ui, refs, shown, j)
            <4>1. c \in CallType /\ code \in SetupCodes \cup JobCodes
                BY <1>6, <3>1
            <4>2. PICK x : x = Error(code)
                OBVIOUS
            <4>3. d = [c EXCEPT !.at = "answered", !.answer = x]
                BY <3>2, <4>2
            <4>4. x \in AnswerType /\ ~x.ok
                BY <4>1, <4>2 DEF Error, AnswerType
            <4>5. c \in CallType /\ x \in AnswerType /\ ~x.ok /\ Fits(c, p)
                  /\ Awaited(c, ui, refs, shown, j)
                BY <4>1, <4>4, <3>3
            <4>6. \A e : e = [c EXCEPT !.at = "answered", !.answer = x] =>
                    e \in CallType /\ Fits(e, p) /\ Awaited(e, ui, refs, shown, j)
                BY <4>5, ErrorAnswer
            <4> QED
                BY <4>3, <4>6
        <3>5. /\ calls' = [calls EXCEPT ![i] = d]
              /\ Counts(d, refs, shown) = Counts(c, refs, shown)
            BY <2>1, <3>1, <3>2
        <3> QED
            BY <2>2, <2>3, <3>4, <3>5
    <2>6. /\ Code(kind) \subseteq SetupCodes \cup JobCodes
          /\ Lost(kind) \in SetupCodes \cup JobCodes
        BY DEF Code, Lost, SetupCodes, JobCodes
    <2> QED
        BY <1>1, <1>5, <2>4, <2>5, <2>6
<1>10. PICK more : more = calls' \o refs.queue
    OBVIOUS
<1>11. /\ calls' \in Seq(CallType) /\ DOMAIN more = DOMAIN ops
       /\ \A k \in DOMAIN ops : more[k] = IF k = i THEN d ELSE ops[k]
    BY <1>3, <1>4, <1>9, <1>10, Replaced
<1>12. AllAwaited(more, ui, refs, shown, plans', jobs')
    <2>1. \A k \in DOMAIN ops : /\ Fits(ops[k], plans')
                                /\ Awaited(ops[k], ui, refs, shown, jobs')
        BY <1>7, <1>8, LaterAwaited DEF AllAwaited
    <2> QED
        BY <1>9, <1>11, <2>1 DEF AllAwaited
<1>13. OneCounts(more, refs, shown)
    BY <1>6, <1>7, <1>9, <1>11 DEF OneCounts
<1>14. ReviewOK(ui, shown, plans') /\ JobOK(ui, jobs')
    BY <1>2, <1>8, LaterDialog DEF DialogOK, TypesOK, OpenOK, EnvOK
<1>15. DialogOK(more, ui, refs, shown, plans', jobs', agreed)
    BY <1>2, <1>12, <1>13, <1>14 DEF DialogOK
<1>16. Onward(ui, ui)
    BY <1>2, OnwardAlike DEF DialogOK
<1> QED
    BY <1>1, <1>2, <1>8, <1>10, <1>11, <1>15, <1>16, NextInv
    DEF TypesOK, storeVars, envVars

-----------------------------------------------------------------------------
(* Operations that are queued.                                             *)

(* A turn that ends with Pump.                                             *)
LEMMA Pumped ==
    ASSUME TypesOK, EnvOK(shown, update, scans), NEW u \in Ui, NEW r \in Refs,
           NEW sent \in Seq(CallType), Pump(u, r, sent), Onward(ui, u),
           DialogOK(sent \o r.queue, u, r, shown, plans, jobs, agreed),
           UNCHANGED <<nativeVars, envVars, agreed>>
    PROVE  WorkflowInv' /\ Onward(ui, ui')
<1>1. PICK v : v = ui'
    OBVIOUS
<1>2. PICK w : w = refs'
    OBVIOUS
<1>3. /\ v \in Ui /\ w \in Refs /\ calls' \in Seq(CallType)
      /\ calls' \o w.queue = sent \o r.queue
      /\ Alike(u, v) /\ AlikeRefs(r, w)
    BY <1>1, <1>2, PumpKeeps
<1>4. DialogOK(calls' \o w.queue, v, w, shown, plans, jobs, agreed)
    BY <1>3, SameDialog
<1>5. Onward(ui, v)
    BY <1>3 DEF Onward, Alike
<1> QED
    BY <1>1, <1>2, <1>3, <1>4, <1>5, NextInv
    DEF TypesOK, nativeVars, storeVars, envVars

(* The timer is cleared.                                                   *)
LEMMA TimerCleared ==
    ASSUME NEW ops, NEW u, NEW r, NEW sh, NEW p, NEW j, NEW ag, NEW w,
           DialogOK(ops, u, r, sh, p, j, ag),
           w.generation = r.generation, w.intent = r.intent, ~w.timer
    PROVE  DialogOK(ops, u, w, sh, p, j, ag)
<1>1. \A c : OfDialog(c, w) = OfDialog(c, r) /\ Counts(c, w, sh) = Counts(c, r, sh)
    BY DEF OfDialog, Counts
<1>2. ASSUME NEW c, Awaited(c, u, r, sh, j) PROVE Awaited(c, u, w, sh, j)
    BY <1>1, <1>2 DEF Awaited
<1>3. AllAwaited(ops, u, w, sh, p, j)
    BY <1>2 DEF DialogOK, AllAwaited
<1>4. OneCounts(ops, w, sh)
    BY <1>1 DEF DialogOK, OneCounts
<1> QED
    BY <1>3, <1>4 DEF DialogOK, TimerOK

(* Another intent: the operations that wait or run no longer count.        *)
LEMMA NewIntent ==
    ASSUME NEW ops \in Seq(CallType), NEW u, NEW r \in Refs, NEW sh, NEW p, NEW j,
           NEW w, AllAwaited(ops, u, r, sh, p, j),
           u.phase \in {"active", "finished"},
           w.generation = r.generation, w.intent = r.intent + 1
    PROVE  AllAwaited(ops, u, w, sh, p, j) /\ NoneCounts(ops, w, sh)
<1>1. ASSUME NEW i \in DOMAIN ops
      PROVE  /\ Fits(ops[i], p) /\ Awaited(ops[i], u, w, sh, j)
             /\ ~Counts(ops[i], w, sh)
    <2>1. PICK c : c = ops[i]
        OBVIOUS
    <2>2. /\ c \in CallType /\ Fits(c, p) /\ Awaited(c, u, r, sh, j)
        BY <2>1 DEF AllAwaited
    <2>3. c.intent \in Nat /\ r.intent \in Nat
        BY <2>2 DEF CallType, Refs
    <2>4. OfDialog(c, w) = OfDialog(c, r)
        BY DEF OfDialog
    <2>5. OfDialog(c, w) => c.intent <= w.intent /\ c.intent # w.intent
        BY <2>2, <2>3, <2>4 DEF Awaited
    <2>6. ~Counts(c, w, sh)
        <3>1. ASSUME Counts(c, w, sh) PROVE FALSE
            <4>1. OfDialog(c, r) /\ Counts(c, r, sh)
                BY <3>1, <2>4, <2>5 DEF Counts
            <4>2. c.kind \in {"destination", "start", "plan"}
                BY <3>1, <2>5 DEF Counts
            <4> QED
                BY <4>1, <4>2, <2>2 DEF Awaited
        <3> QED
            BY <3>1
    <2>7. Awaited(c, u, w, sh, j)
        BY <2>2, <2>4, <2>5, <2>6 DEF Awaited
    <2> QED
        BY <2>1, <2>2, <2>6, <2>7
<1> QED
    BY <1>1 DEF AllAwaited, NoneCounts

(* An operation of the job that is shown, in the dialog as it is.          *)
LEMMA NewOperation ==
    ASSUME WorkflowInv, NEW r \in Refs, NEW kind \in JobKinds, ui.job # NoJob,
           r.generation = refs.generation, ~r.timer,
           kind \in {"poll", "cancel"} =>
              ui.phase = "active" /\ ui.job.status \notin Terminal
    PROVE  LET c == Call(r, kind, ui.job.plan)
           IN  /\ c \in CallType /\ Fits(c, plans)
               /\ Awaited(c, ui, r, shown, jobs)
<1>1. PICK c : c = Call(r, kind, ui.job.plan)
    OBVIOUS
<1>2. /\ ui.job.plan = ui.plan /\ ui.plan \in Plans
    BY DEF WorkflowInv, DialogOK, JobOK
<1>3. /\ c.kind = kind /\ c.generation = r.generation /\ c.intent = r.intent
      /\ c.subject = ui.plan /\ c.at = "sent"
    BY <1>1, <1>2 DEF Call
<1>4. r.generation \in Nat /\ r.intent \in Nat
    BY DEF Refs
<1>5. c \in CallType
    BY <1>1, <1>2, <1>4 DEF Call, CallType, JobKinds, Commands
<1>6. Fits(c, plans)
    BY <1>2, <1>3 DEF Fits, JobKinds
<1>7. Awaited(c, ui, r, shown, jobs)
    BY <1>3, <1>4 DEF Awaited, Counts, OfDialog, JobKinds
<1> QED
    BY <1>1, <1>5, <1>6, <1>7

(* An operation at the end of the queue.                                   *)
LEMMA QueuedType ==
    ASSUME NEW r \in Refs, NEW c \in CallType, c.kind \in JobKinds, c.at = "sent",
           NEW b \in BOOLEAN,
           NEW kept \in Seq({o \in CallType : o.kind \in JobKinds /\ o.at = "sent"})
    PROVE  LET w == [r EXCEPT !.queue = Append(kept, c), !.pollQueued = b]
           IN  w \in Refs /\ w.queue = Append(kept, c) /\ AlikeRefs(r, w)
<1> DEFINE Q == {o \in CallType : o.kind \in JobKinds /\ o.at = "sent"}
<1>1. PICK t : t = Append(kept, c)
    OBVIOUS
<1>2. c \in Q /\ kept \in Seq(Q)
    OBVIOUS
<1>3. t \in Seq(Q)
    <2> HIDE DEF Q
    <2> QED
        BY <1>1, <1>2
<1> QED
    BY <1>1, <1>3 DEF Refs, AlikeRefs

LEMMA PollTimerStep ==
    ASSUME WorkflowInv, PollTimer
    PROVE  WorkflowInv' /\ Onward(ui, ui')
<1>1. /\ TypesOK /\ EnvOK(shown, update, scans)
      /\ DialogOK(calls \o refs.queue, ui, refs, shown, plans, jobs, agreed)
      /\ JobOK(ui, jobs) /\ TimerOK(ui, refs)
    BY DEF WorkflowInv, DialogOK
<1>2. /\ ui \in Ui /\ refs \in Refs /\ calls \in Seq(CallType)
      /\ refs.queue \in Seq(CallType)
    BY <1>1, InFlight
<1>3. /\ refs.timer /\ UNCHANGED <<nativeVars, envVars, agreed>>
      /\ ui.phase = "active" /\ ui.job.status \notin Terminal /\ ui.job # NoJob
    BY <1>1 DEF PollTimer, TimerOK, JobOK
<1>4. PICK r : r = [refs EXCEPT !.timer = FALSE]
    OBVIOUS
<1>5. /\ r \in Refs /\ r.generation = refs.generation /\ r.intent = refs.intent
      /\ ~r.timer /\ r.queue = refs.queue
    BY <1>2, <1>4 DEF Refs
<1>6. DialogOK(calls \o r.queue, ui, r, shown, plans, jobs, agreed)
    BY <1>1, <1>5, TimerCleared
<1>7. PICK c : c = Call(r, "poll", ui.job.plan)
    OBVIOUS
<1>8. c \in CallType /\ Fits(c, plans) /\ Awaited(c, ui, r, shown, jobs)
    BY <1>3, <1>5, <1>7, NewOperation DEF JobKinds
<1>9. c = Call(refs, "poll", ui.job.plan) /\ c.kind = "poll" /\ c.at = "sent"
    BY <1>5, <1>7 DEF Call
<1>10. Pump(ui, Enqueued(r, c), calls)
    BY <1>4, <1>9 DEF PollTimer
<1>11. Onward(ui, ui)
    BY <1>1, OnwardAlike
<1>12. CASE r.pollQueued \/ r.running = "poll"
    <2>1. Enqueued(r, c) = r
        BY <1>9, <1>12 DEF Enqueued
    <2> QED
        BY <2>1, <1>1, <1>2, <1>3, <1>5, <1>6, <1>10, <1>11, Pumped
<1>13. CASE ~(r.pollQueued \/ r.running = "poll")
    <2>1. PICK w : w = Enqueued(r, c)
        OBVIOUS
    <2>2. w = [r EXCEPT !.queue = Append(@, c), !.pollQueued = TRUE]
        BY <1>9, <1>13, <2>1 DEF Enqueued
    <2>3. w \in Refs /\ w.queue = Append(r.queue, c) /\ AlikeRefs(r, w)
        <3>1. r.queue \in Seq({o \in CallType : o.kind \in JobKinds /\ o.at = "sent"})
            BY <1>5 DEF Refs
        <3>2. PICK q : q = r.queue
            OBVIOUS
        <3>3. w = [r EXCEPT !.queue = Append(q, c), !.pollQueued = TRUE]
            BY <2>2, <3>2
        <3> QED
            BY <1>5, <1>8, <1>9, <3>1, <3>2, <3>3, QueuedType DEF JobKinds
    <2>4. NoneCounts(calls \o r.queue, r, shown)
        <3>1. NoneCounts(calls \o refs.queue, refs, shown)
            BY <1>1, <1>3, WhoWaits DEF DialogOK
        <3> QED
            BY <3>1, <1>5 DEF NoneCounts, Counts, OfDialog
    <2>5. With(calls \o Append(r.queue, c), calls \o r.queue, c,
               Len(calls) + Len(r.queue) + 1)
        BY <1>2, <1>5, <1>8, AddedLast
    <2>6. /\ AllAwaited(calls \o Append(r.queue, c), ui, r, shown, plans, jobs)
          /\ OneCounts(calls \o Append(r.queue, c), r, shown)
        BY <1>6, <1>8, <2>4, <2>5, OneAdded DEF DialogOK
    <2>7. DialogOK(calls \o w.queue, ui, r, shown, plans, jobs, agreed)
        BY <1>6, <2>3, <2>6 DEF DialogOK
    <2>8. DialogOK(calls \o w.queue, ui, w, shown, plans, jobs, agreed)
        BY <2>3, <2>7, SameDialog DEF Alike
    <2> QED
        BY <1>1, <1>2, <1>3, <1>10, <1>11, <2>1, <2>3, <2>8, Pumped
<1> QED
    BY <1>12, <1>13

(* A new operation in a new intent.  What was kept of the queue is of an   *)
(* earlier intent.                                                         *)
LEMMA Superseded ==
    ASSUME WorkflowInv, NEW u \in Ui, Alike(ui, u), NEW r \in Refs,
           r.generation = refs.generation, r.intent = refs.intent + 1, ~r.timer,
           NEW kind \in {"cancel", "open"}, ui.phase \in {"active", "finished"},
           kind = "cancel" => ui.phase = "active" /\ ui.job.status \notin Terminal,
           NEW w \in Refs, AlikeRefs(r, w), NEW kept \in Seq(CallType),
           w.queue = Append(kept, Call(r, kind, ui.job.plan)),
           \A k \in DOMAIN kept : kept[k] \in Range(refs.queue),
           Pump(u, w, calls), UNCHANGED <<nativeVars, envVars, agreed>>
    PROVE  WorkflowInv' /\ Onward(ui, ui')
<1>1. /\ TypesOK /\ EnvOK(shown, update, scans)
      /\ DialogOK(calls \o refs.queue, ui, refs, shown, plans, jobs, agreed)
      /\ JobOK(ui, jobs) /\ ui.job # NoJob
    BY DEF WorkflowInv, DialogOK, JobOK
<1>2. /\ ui \in Ui /\ refs \in Refs /\ calls \in Seq(CallType)
      /\ refs.queue \in Seq(CallType) /\ calls \o refs.queue \in Seq(CallType)
    BY <1>1, InFlight
<1>3. PICK c : c = Call(r, kind, ui.job.plan)
    OBVIOUS
<1>4. c \in CallType /\ Fits(c, plans) /\ Awaited(c, ui, r, shown, jobs)
    BY <1>1, <1>3, NewOperation DEF JobKinds
<1>5. PICK ops : ops = calls \o refs.queue
    OBVIOUS
<1>6. PICK few : few = calls \o kept
    OBVIOUS
<1>7. /\ AllAwaited(ops, ui, r, shown, plans, jobs)
      /\ NoneCounts(ops, r, shown)
    BY <1>1, <1>2, <1>5, NewIntent DEF DialogOK
<1>8. \A k \in DOMAIN few : \E l \in DOMAIN ops : few[k] = ops[l]
    <2>1. PICK n \in Nat : n = Len(calls)
        BY <1>2
    <2>2. PICK q : q = refs.queue
        OBVIOUS
    <2>3. /\ DOMAIN ops = 1 .. n + Len(q) /\ Len(q) \in Nat
          /\ \A k \in 1 .. n : ops[k] = calls[k]
          /\ \A k \in 1 .. Len(q) : ops[n + k] = q[k]
        BY <1>2, <1>5, <2>1, <2>2, Joined
    <2>4. /\ DOMAIN few = 1 .. n + Len(kept) /\ Len(kept) \in Nat
          /\ \A k \in 1 .. n : few[k] = calls[k]
          /\ \A k \in 1 .. Len(kept) : few[n + k] = kept[k]
        BY <1>2, <1>6, <2>1, Joined
    <2>5. ASSUME NEW k \in 1 .. n + Len(kept)
          PROVE  \E l \in 1 .. n + Len(q) : few[k] = ops[l]
        <3>1. CASE k <= n
            BY <3>1, <2>3, <2>4
        <3>2. CASE k > n
            <4>1. PICK m \in 1 .. Len(kept) : k = n + m
                <5>1. k - n \in 1 .. Len(kept) /\ k = n + (k - n)
                    BY <3>2, <2>4
                <5> QED
                    BY <5>1
            <4>2. few[k] = kept[m] /\ kept[m] \in Range(q)
                <5>1. m \in DOMAIN kept
                    OBVIOUS
                <5> QED
                    BY <4>1, <5>1, <2>2, <2>4
            <4>3. PICK l \in 1 .. Len(q) : kept[m] = q[l]
                <5>1. DOMAIN q = 1 .. Len(q)
                    BY <1>2, <2>2
                <5> QED
                    BY <4>2, <5>1 DEF Range
            <4>4. n + l \in 1 .. n + Len(q)
                BY <2>3
            <4> QED
                BY <4>2, <4>3, <4>4, <2>3
        <3>3. k <= n \/ k > n
            OBVIOUS
        <3> QED
            BY <3>1, <3>2, <3>3
    <2> QED
        BY <2>3, <2>4, <2>5
<1>9. /\ AllAwaited(few, ui, r, shown, plans, jobs)
      /\ NoneCounts(few, r, shown)
    BY <1>7, <1>8 DEF AllAwaited, NoneCounts
<1>10. With(calls \o Append(kept, c), few, c, Len(calls) + Len(kept) + 1)
    BY <1>2, <1>4, <1>6, AddedLast
<1>11. /\ AllAwaited(calls \o Append(kept, c), ui, r, shown, plans, jobs)
       /\ OneCounts(calls \o Append(kept, c), r, shown)
    BY <1>4, <1>9, <1>10, OneAdded
<1>12. DialogOK(calls \o w.queue, ui, r, shown, plans, jobs, agreed)
    BY <1>1, <1>3, <1>11 DEF DialogOK, TimerOK
<1>13. DialogOK(calls \o w.queue, u, w, shown, plans, jobs, agreed)
    BY <1>12, SameDialog
<1>14. Onward(ui, u)
    BY <1>1, OnwardAlike DEF Alike
<1> QED
    BY <1>1, <1>2, <1>13, <1>14, Pumped

LEMMA CancelStep ==
    ASSUME WorkflowInv, Cancel
    PROVE  WorkflowInv' /\ Onward(ui, ui')
<1>1. PICK r : r = [refs EXCEPT !.cancelPending = TRUE, !.timer = FALSE,
                                !.intent = @ + 1]
    OBVIOUS
<1>2. PICK u : u = [ui EXCEPT !.operation = "cancelRequest", !.error = None]
    OBVIOUS
<1>3. PICK c : c = Call(r, "cancel", ui.job.plan)
    OBVIOUS
<1>4. /\ ui.phase = "active" /\ ui.job.status \notin Terminal
      /\ Pump(u, Enqueued(r, c), calls)
      /\ UNCHANGED <<nativeVars, envVars, agreed>>
    BY <1>1, <1>2, <1>3 DEF Cancel
<1>5. TypesOK /\ ui \in Ui /\ refs \in Refs /\ JobOK(ui, jobs)
    BY DEF WorkflowInv, TypesOK, DialogOK
<1>6. u \in Ui /\ Alike(ui, u)
    BY <1>2, <1>5 DEF Ui, Alike
<1>7. /\ r \in Refs /\ r.generation = refs.generation /\ ~r.timer
      /\ r.intent = refs.intent + 1 /\ r.queue = refs.queue
    <2>1. PICK n \in Nat : n = refs.intent + 1
        BY <1>5 DEF Refs
    <2>2. r = [refs EXCEPT !.cancelPending = TRUE, !.timer = FALSE, !.intent = n]
        BY <1>1, <2>1
    <2> QED
        BY <1>5, <2>1, <2>2 DEF Refs
<1>8. c \in CallType /\ c.kind = "cancel" /\ c.at = "sent"
    <2>1. c.kind = "cancel" /\ c.at = "sent"
        BY <1>3 DEF Call
    <2>2. ui.job # NoJob
        BY <1>4, <1>5 DEF JobOK
    <2> QED
        BY <2>1, <2>2, <1>3, <1>4, <1>7, NewOperation DEF JobKinds
<1> DEFINE Q == {o \in CallType : o.kind \in JobKinds /\ o.at = "sent"}
           S == {o \in Range(refs.queue) : ~IsPoll(o)}
<1>9. PICK q : q = refs.queue
    OBVIOUS
<1>10. PICK kept : kept = Filter(q, S)
    OBVIOUS
<1>11. /\ kept \in Seq(Q) /\ kept \in Seq(CallType)
       /\ \A k \in DOMAIN kept : kept[k] \in Range(q)
    <2>1. q \in Seq(Q)
        BY <1>5, <1>9 DEF Refs
    <2>2. Q \subseteq CallType
        OBVIOUS
    <2>3. S \subseteq Range(q)
        BY <1>9
    <2> HIDE DEF Q, S
    <2>4. kept \in Seq(Q \cap S)
        BY <1>10, <2>1, FilterKeeps
    <2>5. kept \in Seq(Q)
        BY <2>4
    <2>6. kept \in Seq(CallType)
        BY <2>2, <2>5
    <2>7. \A k \in DOMAIN kept : kept[k] \in S
        BY <2>4
    <2> QED
        BY <2>3, <2>5, <2>6, <2>7
<1>12. PICK w : w = Enqueued(r, c)
    OBVIOUS
<1>13. w \in Refs /\ w.queue = Append(kept, c) /\ AlikeRefs(r, w)
    <2>1. PICK b \in BOOLEAN : b = (r.pollQueued /\ kept = r.queue)
        OBVIOUS
    <2>2. w = [r EXCEPT !.queue = Append(kept, c),
                        !.pollQueued = @ /\ kept = r.queue]
        BY <1>7, <1>8, <1>9, <1>10, <1>12 DEF Enqueued
    <2>3. w = [r EXCEPT !.queue = Append(kept, c), !.pollQueued = b]
        BY <2>1, <2>2
    <2> QED
        BY <1>7, <1>8, <1>11, <2>1, <2>3, QueuedType DEF JobKinds
<1> HIDE DEF Q, S
<1> QED
    BY <1>3, <1>4, <1>6, <1>7, <1>9, <1>11, <1>12, <1>13, Superseded

LEMMA OpenDestinationStep ==
    ASSUME WorkflowInv, OpenDestination
    PROVE  WorkflowInv' /\ Onward(ui, ui')
<1>1. PICK r : r = [refs EXCEPT !.openPending = TRUE, !.intent = @ + 1]
    OBVIOUS
<1>2. PICK u : u = [ui EXCEPT !.operation = "opening", !.error = None]
    OBVIOUS
<1>3. PICK c : c = Call(r, "open", ui.job.plan)
    OBVIOUS
<1>4. /\ ui.phase = "finished" /\ Pump(u, Enqueued(r, c), calls)
      /\ UNCHANGED <<nativeVars, envVars, agreed>>
    BY <1>1, <1>2, <1>3 DEF OpenDestination
<1>5. /\ TypesOK /\ ui \in Ui /\ refs \in Refs /\ JobOK(ui, jobs)
      /\ TimerOK(ui, refs)
    BY DEF WorkflowInv, TypesOK, DialogOK
<1>6. u \in Ui /\ Alike(ui, u)
    BY <1>2, <1>5 DEF Ui, Alike
<1>7. /\ r \in Refs /\ r.generation = refs.generation /\ ~r.timer
      /\ r.intent = refs.intent + 1 /\ r.queue = refs.queue
    <2>1. PICK n \in Nat : n = refs.intent + 1
        BY <1>5 DEF Refs
    <2>2. r = [refs EXCEPT !.openPending = TRUE, !.intent = n]
        BY <1>1, <2>1
    <2> QED
        BY <1>4, <1>5, <2>1, <2>2 DEF Refs, TimerOK
<1>8. c \in CallType /\ c.kind = "open" /\ c.at = "sent"
    <2>1. c.kind = "open" /\ c.at = "sent"
        BY <1>3 DEF Call
    <2>2. ui.job # NoJob
        BY <1>4, <1>5 DEF JobOK
    <2> QED
        BY <2>1, <2>2, <1>3, <1>4, <1>7, NewOperation DEF JobKinds
<1> DEFINE Q == {o \in CallType : o.kind \in JobKinds /\ o.at = "sent"}
<1>9. PICK q : q = refs.queue
    OBVIOUS
<1>10. /\ q \in Seq(Q) /\ q \in Seq(CallType)
       /\ \A k \in DOMAIN q : q[k] \in Range(q)
    BY <1>5, <1>9, QueueType DEF Refs, Range
<1>11. PICK w : w = Enqueued(r, c)
    OBVIOUS
<1>12. w \in Refs /\ w.queue = Append(q, c) /\ AlikeRefs(r, w)
    <2>1. PICK b \in BOOLEAN : b = r.pollQueued
        BY <1>7 DEF Refs
    <2>2. w = [r EXCEPT !.queue = Append(@, c)]
        BY <1>8, <1>11 DEF Enqueued
    <2>3. w = [r EXCEPT !.queue = Append(q, c), !.pollQueued = b]
        BY <2>1, <2>2, <1>7, <1>9 DEF Refs
    <2> QED
        BY <1>7, <1>8, <1>10, <2>3, QueuedType DEF JobKinds
<1> HIDE DEF Q
<1> QED
    BY <1>3, <1>4, <1>6, <1>7, <1>9, <1>10, <1>11, <1>12, Superseded

-----------------------------------------------------------------------------
(* The answers to the requests of the setup.                               *)

(* What is known of the call whose answer is received, and of the others.  *)
LEMMA Departed ==
    ASSUME WorkflowInv, NEW i \in DOMAIN calls
    PROVE  LET few == RemoveAt(calls, i) \o refs.queue
           IN  /\ calls[i] \in CallType /\ Fits(calls[i], plans)
               /\ Awaited(calls[i], ui, refs, shown, jobs)
               /\ RemoveAt(calls, i) \in Seq(CallType)
               /\ DialogOK(few, ui, refs, shown, plans, jobs, agreed)
               /\ Counts(calls[i], refs, shown) => NoneCounts(few, refs, shown)
<1>1. PICK few : few = RemoveAt(calls, i) \o refs.queue
    OBVIOUS
<1>2. PICK ops : ops = calls \o refs.queue
    OBVIOUS
<1>3. /\ calls \in Seq(CallType) /\ refs.queue \in Seq(CallType)
    BY InFlight DEF WorkflowInv
<1>4. DialogOK(ops, ui, refs, shown, plans, jobs, agreed)
    BY <1>2 DEF WorkflowInv
<1>5. /\ RemoveAt(calls, i) \in Seq(CallType) /\ Without(few, ops, i)
      /\ i \in DOMAIN ops /\ ops[i] = calls[i]
    BY <1>1, <1>2, <1>3, Removal
<1>6. AllAwaited(few, ui, refs, shown, plans, jobs)
    BY <1>4, <1>5, FewerAwaited DEF DialogOK
<1>7. /\ OneCounts(few, refs, shown)
      /\ Counts(calls[i], refs, shown) => NoneCounts(few, refs, shown)
    BY <1>4, <1>5, FewerCount DEF DialogOK
<1>8. Fits(calls[i], plans) /\ Awaited(calls[i], ui, refs, shown, jobs)
    BY <1>4, <1>5 DEF DialogOK, AllAwaited
<1>9. calls[i] \in CallType
    BY <1>3
<1>10. DialogOK(few, ui, refs, shown, plans, jobs, agreed)
    BY <1>4, <1>6, <1>7 DEF DialogOK
<1> QED
    BY <1>1, <1>5, <1>7, <1>8, <1>9, <1>10

Requests == {"destination", "plan", "start"}

LEMMA Settles ==
    ASSUME WorkflowInv, NEW i \in DOMAIN calls, calls[i].kind \in Requests,
           calls[i].at = "answered", NEW current, NEW u, Settle(i, current, u),
           current => Counts(calls[i], refs, shown),
           current /\ calls[i].answer.ok =>
              /\ u \in Ui /\ OpenOK(u, shown) /\ ConsentOK(u, shown, agreed)
              /\ ReviewOK(u, shown, plans) /\ JobOK(u, jobs)
    PROVE  WorkflowInv' /\ Onward(ui, ui')
<1>1. PICK c : c = calls[i]
    OBVIOUS
<1>2. PICK sent : sent = RemoveAt(calls, i)
    OBVIOUS
<1>3. PICK few : few = sent \o refs.queue
    OBVIOUS
<1>4. /\ c \in CallType /\ Fits(c, plans) /\ Awaited(c, ui, refs, shown, jobs)
      /\ sent \in Seq(CallType)
      /\ DialogOK(few, ui, refs, shown, plans, jobs, agreed)
      /\ Counts(c, refs, shown) => NoneCounts(few, refs, shown)
    BY <1>1, <1>2, <1>3, Departed
<1>5. /\ TypesOK /\ EnvOK(shown, update, scans) /\ ui \in Ui /\ refs \in Refs
      /\ JobOK(ui, jobs) /\ OpenOK(ui, shown) /\ ConsentOK(ui, shown, agreed)
    BY DEF WorkflowInv, TypesOK, DialogOK
<1>6. PICK r : r = [refs EXCEPT !.busy = @ \ {c.kind}]
    OBVIOUS
<1>7. /\ r \in Refs /\ AlikeRefs(refs, r) /\ r.queue = refs.queue
    BY <1>5, <1>6 DEF Refs, AlikeRefs
<1>8. /\ calls' = sent /\ UNCHANGED <<nativeVars, envVars, agreed>>
      /\ ui' = IF ~current THEN ui ELSE IF c.answer.ok THEN u ELSE Failed(c.answer.code)
      /\ refs' = IF ~current THEN r ELSE
                 IF c.answer.ok THEN Scheduled(u, r) ELSE Quiet(r)
    BY <1>1, <1>2, <1>6 DEF Settle
<1>9. PICK v : v = ui'
    OBVIOUS
<1>10. PICK w : w = refs'
    OBVIOUS
<1>11. CASE ~current
    <2>1. v = ui /\ w = r
        BY <1>8, <1>9, <1>10, <1>11
    <2>2. DialogOK(few, v, w, shown, plans, jobs, agreed)
        BY <1>4, <1>7, <2>1, SameDialog DEF Alike
    <2>3. Onward(ui, v)
        BY <1>5, <2>1, OnwardAlike
    <2> QED
        BY <1>3, <1>4, <1>5, <1>7, <1>8, <1>9, <1>10, <2>1, <2>2, <2>3, NextInv
        DEF TypesOK, nativeVars, storeVars, envVars
<1>12. CASE current
    <2>1. /\ NoneCounts(few, r, shown) /\ ui.job = NoJob
          /\ ui.phase \in {"selectingDestination", "planning", "starting"}
        <3>1. /\ NoneCounts(few, refs, shown)
              /\ ui.phase \in {"selectingDestination", "planning", "starting"}
            BY <1>1, <1>4, <1>12 DEF Awaited, Requests
        <3>2. NoneCounts(few, r, shown)
            BY <1>7, <3>1 DEF NoneCounts, Counts, OfDialog, AlikeRefs
        <3> QED
            BY <1>5, <3>1, <3>2 DEF JobOK
    <2>2. /\ v \in Ui /\ OpenOK(v, shown) /\ ConsentOK(v, shown, agreed)
          /\ ReviewOK(v, shown, plans) /\ JobOK(v, jobs)
          /\ w \in Refs /\ w.generation = r.generation /\ w.intent = r.intent
          /\ w.queue = r.queue /\ TimerOK(v, w)
        <3>1. CASE c.answer.ok
            <4>1. v = u /\ w = Scheduled(u, r)
                BY <1>8, <1>9, <1>10, <1>12, <3>1
            <4>2. PICK b \in BOOLEAN :
                     b = (/\ u.phase = "active" /\ u.job.status \notin Terminal
                          /\ ~r.cancelPending)
                OBVIOUS
            <4>3. w = [r EXCEPT !.timer = b]
                BY <4>1, <4>2 DEF Scheduled
            <4>4. /\ w \in Refs /\ w.generation = r.generation
                  /\ w.intent = r.intent /\ w.queue = r.queue /\ w.timer = b
                BY <1>7, <4>3 DEF Refs
            <4> QED
                BY <1>1, <1>12, <3>1, <4>1, <4>2, <4>4 DEF TimerOK
        <3>2. CASE ~c.answer.ok
            <4>1. v = Failed(c.answer.code) /\ w = Quiet(r)
                BY <1>8, <1>9, <1>10, <1>12, <3>2
            <4>2. c.answer.code \in SetupCodes \cup JobCodes
                BY <1>1, <1>4, <3>2 DEF Fits, AnswerType
            <4>3. /\ v \in Ui /\ v.phase = "error" /\ v.job = ui.job
                  /\ v.consent = ui.consent /\ v.policy = ui.policy
                BY <1>5, <4>1, <4>2 DEF Failed, Ui
            <4>4. /\ w \in Refs /\ w.generation = r.generation
                  /\ w.intent = r.intent /\ w.queue = r.queue /\ w.timer = FALSE
                BY <1>7, <4>1 DEF Quiet, Refs
            <4> QED
                BY <1>5, <2>1, <4>3, <4>4
                DEF OpenOK, ConsentOK, ReviewOK, JobOK, TimerOK
        <3> QED
            BY <3>1, <3>2
    <2>3. /\ AllAwaited(few, v, w, shown, plans, jobs) /\ NoneCounts(few, w, shown)
        <3>1. AllAwaited(few, ui, refs, shown, plans, jobs)
            BY <1>4 DEF DialogOK
        <3>2. NoneCounts(few, refs, shown) /\ w.generation = refs.generation
              /\ w.intent = refs.intent
            BY <1>7, <2>1, <2>2 DEF NoneCounts, Counts, OfDialog, AlikeRefs
        <3> QED
            BY <3>1, <3>2, <2>1, AtRest
    <2>4. DialogOK(few, v, w, shown, plans, jobs, agreed)
        BY <2>2, <2>3, NobodyCounts DEF DialogOK
    <2>5. Onward(ui, v)
        BY <1>5, <2>1, OnwardWithout
    <2> QED
        BY <1>3, <1>4, <1>5, <1>7, <1>8, <1>9, <1>10, <2>2, <2>4, <2>5, NextInv
        DEF TypesOK, nativeVars, storeVars, envVars
<1> QED
    BY <1>11, <1>12

LEMMA SettleDestinationStep ==
    ASSUME WorkflowInv, SettleDestination
    PROVE  WorkflowInv' /\ Onward(ui, ui')
<1>1. PICK i \in DOMAIN calls :
         /\ Answered(i, "destination")
         /\ Settle(i, OfThisGeneration(i),
                   IF calls[i].answer.value = None THEN InitialUi
                   ELSE [ui EXCEPT !.phase = "setup", !.error = None,
                                   !.destination = calls[i].answer.value])
    BY DEF SettleDestination
<1>2. PICK c : c = calls[i]
    OBVIOUS
<1>3. /\ c.kind = "destination" /\ c.at = "answered" /\ Fits(c, plans)
      /\ Awaited(c, ui, refs, shown, jobs)
    BY <1>1, <1>2, Departed DEF Answered
<1>4. /\ ui \in Ui /\ JobOK(ui, jobs) /\ OpenOK(ui, shown)
      /\ ConsentOK(ui, shown, agreed)
    BY DEF WorkflowInv, TypesOK, DialogOK
<1>5. PICK u : u = IF c.answer.value = None THEN InitialUi
                   ELSE [ui EXCEPT !.phase = "setup", !.error = None,
                                   !.destination = c.answer.value]
    OBVIOUS
<1>6. OfThisGeneration(i) => Counts(c, refs, shown)
    BY <1>2, <1>3 DEF OfThisGeneration, Counts, OfDialog
<1>7. ASSUME OfThisGeneration(i), c.answer.ok
      PROVE  /\ u \in Ui /\ OpenOK(u, shown) /\ ConsentOK(u, shown, agreed)
             /\ ReviewOK(u, shown, plans) /\ JobOK(u, jobs)
    <2>1. ui.phase = "selectingDestination" /\ ui.job = NoJob /\ ~ui.consent
        BY <1>3, <1>4, <1>6, <1>7 DEF Awaited, JobOK, ConsentOK
    <2>2. CASE c.answer.value = None
        BY <1>5, <2>2, UiTypes DEF OpenOK, ConsentOK, ReviewOK, JobOK
    <2>3. CASE c.answer.value # None
        <3>1. c.answer.value \in Destinations
            BY <1>3, <1>7, <2>3 DEF Fits
        <3>2. /\ u \in Ui /\ u.phase = "setup" /\ u.job = NoJob /\ ~u.consent
            BY <1>4, <1>5, <2>1, <2>3, <3>1 DEF Ui
        <3> QED
            BY <1>4, <2>1, <3>2 DEF OpenOK, ConsentOK, ReviewOK, JobOK
    <2> QED
        BY <2>2, <2>3
<1>8. c.kind \in Requests
    BY <1>3 DEF Requests
<1> QED
    BY <1>1, <1>2, <1>3, <1>5, <1>6, <1>7, <1>8, Settles

LEMMA SettlePlanStep ==
    ASSUME WorkflowInv, SettlePlan
    PROVE  WorkflowInv' /\ Onward(ui, ui')
<1>1. PICK i \in DOMAIN calls :
         /\ Answered(i, "plan")
         /\ Settle(i, PlanIsCurrent(i),
                   [ui EXCEPT !.phase = "review", !.error = None,
                              !.plan = calls[i].answer.value])
    BY DEF SettlePlan
<1>2. PICK c : c = calls[i]
    OBVIOUS
<1>3. /\ c.kind = "plan" /\ c.at = "answered" /\ Fits(c, plans)
      /\ Awaited(c, ui, refs, shown, jobs)
    BY <1>1, <1>2, Departed DEF Answered
<1>4. /\ ui \in Ui /\ JobOK(ui, jobs) /\ OpenOK(ui, shown)
      /\ ConsentOK(ui, shown, agreed)
    BY DEF WorkflowInv, TypesOK, DialogOK
<1>5. PICK u : u = [ui EXCEPT !.phase = "review", !.error = None,
                              !.plan = c.answer.value]
    OBVIOUS
<1>6. PlanIsCurrent(i) => Counts(c, refs, shown)
    BY <1>2, <1>3 DEF PlanIsCurrent, OfThisGeneration, Counts, OfDialog
<1>7. ASSUME PlanIsCurrent(i), c.answer.ok
      PROVE  /\ u \in Ui /\ OpenOK(u, shown) /\ ConsentOK(u, shown, agreed)
             /\ ReviewOK(u, shown, plans) /\ JobOK(u, jobs)
    <2>1. /\ ui.phase = "planning" /\ ui.job = NoJob
          /\ c.subject = Wanted(ui, shown) /\ MayPlan(ui, shown)
        BY <1>3, <1>4, <1>6, <1>7 DEF Awaited, JobOK
    <2>2. c.answer.value \in Plans /\ plans[c.answer.value] = c.subject
        BY <1>3, <1>7 DEF Fits
    <2>3. /\ u \in Ui /\ u.phase = "review" /\ u.job = NoJob
          /\ u.plan = c.answer.value /\ u.consent = ui.consent
          /\ u.policy = ui.policy /\ u.destination = ui.destination
        BY <1>4, <1>5, <2>1, <2>2 DEF Ui
    <2>4. /\ Wanted(u, shown) = Wanted(ui, shown) /\ MayPlan(u, shown)
          /\ AgreedTo(u, shown) = AgreedTo(ui, shown)
        BY <2>1, <2>3 DEF Wanted, MayPlan, AgreedTo
    <2> QED
        BY <1>4, <2>1, <2>2, <2>3, <2>4 DEF OpenOK, ConsentOK, ReviewOK, JobOK
<1>8. c.kind \in Requests
    BY <1>3 DEF Requests
<1> QED
    BY <1>1, <1>2, <1>3, <1>5, <1>6, <1>7, <1>8, Settles

(* What a snapshot makes of the dialog.                                    *)
LEMMA ShownSnapshot ==
    ASSUME WorkflowInv, NEW status \in Statuses, ui.plan \in Plans,
           Behind(status, jobs[ui.plan]), NEW confirmed \in BOOLEAN,
           ui.phase \in {"starting", "active"},
           NEW u, u = Shows(status, ui.plan, confirmed)
    PROVE  /\ u \in Ui /\ OpenOK(u, shown) /\ ConsentOK(u, shown, agreed)
           /\ ReviewOK(u, shown, plans) /\ JobOK(u, jobs)
           /\ u.plan = ui.plan /\ u.job # NoJob
           /\ u.job.plan = ui.plan /\ u.job.status = status
           /\ u.phase = IF status \in Terminal THEN "finished" ELSE "active"
<1>1. /\ ui \in Ui /\ OpenOK(ui, shown) /\ ConsentOK(ui, shown, agreed)
    BY DEF WorkflowInv, TypesOK, DialogOK
<1>2. PICK phase : phase = IF status \in Terminal THEN "finished" ELSE "active"
    OBVIOUS
<1>3. PICK b \in BOOLEAN : b = (ui.cancelRequested \/ confirmed)
    OBVIOUS
<1>4. PICK job : job = [plan |-> ui.plan, status |-> status]
    OBVIOUS
<1>5. u = [ui EXCEPT !.phase = phase, !.job = job, !.operation = "idle",
                     !.cancelRequested = b, !.error = None]
    BY <1>2, <1>3, <1>4 DEF Shows
<1>6. /\ job \in [plan : Plans \cup {None}, status : Statuses \cup {None}]
      /\ phase \in {"finished", "active"}
    BY <1>2, <1>4
<1>7. /\ u \in Ui /\ u.phase = phase /\ u.job = job /\ u.plan = ui.plan
      /\ u.consent = ui.consent /\ u.policy = ui.policy
    <2>1. u \in Ui
        BY <1>1, <1>5, <1>6 DEF Ui
    <2>2. /\ u.phase = phase /\ u.job = job /\ u.plan = ui.plan
          /\ u.consent = ui.consent /\ u.policy = ui.policy
        BY <1>1, <1>5 DEF Ui
    <2> QED
        BY <2>1, <2>2
<1>8. /\ job # NoJob /\ job.plan = ui.plan /\ job.status = status
    BY <1>4, NoStatus DEF NoJob
<1> QED
    BY <1>1, <1>2, <1>7, <1>8 DEF OpenOK, ConsentOK, ReviewOK, JobOK

LEMMA SettleStartStep ==
    ASSUME WorkflowInv, SettleStart
    PROVE  WorkflowInv' /\ Onward(ui, ui')
<1>1. PICK i \in DOMAIN calls :
         /\ Answered(i, "start")
         /\ Settle(i, OfThisGeneration(i),
                   Shows(calls[i].answer.value, calls[i].subject, FALSE))
    BY DEF SettleStart
<1>2. PICK c : c = calls[i]
    OBVIOUS
<1>3. /\ c.kind = "start" /\ c.at = "answered" /\ Fits(c, plans)
      /\ Awaited(c, ui, refs, shown, jobs)
    BY <1>1, <1>2, Departed DEF Answered
<1>4. PICK u : u = Shows(c.answer.value, c.subject, FALSE)
    OBVIOUS
<1>5. OfThisGeneration(i) => Counts(c, refs, shown)
    BY <1>2, <1>3 DEF OfThisGeneration, Counts, OfDialog
<1>6. ASSUME OfThisGeneration(i), c.answer.ok
      PROVE  /\ u \in Ui /\ OpenOK(u, shown) /\ ConsentOK(u, shown, agreed)
             /\ ReviewOK(u, shown, plans) /\ JobOK(u, jobs)
    <2>1. /\ ui.phase = "starting" /\ c.subject = ui.plan /\ ui.plan \in Plans
          /\ c.answer.value = "running" /\ Behind("running", jobs[ui.plan])
        BY <1>3, <1>5, <1>6 DEF Awaited, Counts, Fits
    <2>2. "running" \in Statuses /\ FALSE \in BOOLEAN
        BY DEF Statuses
    <2> QED
        BY <1>4, <2>1, <2>2, ShownSnapshot
<1>7. c.kind \in Requests
    BY <1>3 DEF Requests
<1>8. Settle(i, OfThisGeneration(i), u)
    BY <1>1, <1>2, <1>4
<1> QED
    BY <1>2, <1>3, <1>5, <1>6, <1>7, <1>8, Settles

-----------------------------------------------------------------------------
(* The answers to the operations.                                          *)

(* An operation ends in a dialog that is in order without it.              *)
LEMMA Ends ==
    ASSUME WorkflowInv, NEW i \in DOMAIN calls, NEW u \in Ui, NEW r \in Refs,
           r.queue = refs.queue, EndOperation(i, u, r), Onward(ui, u),
           DialogOK(RemoveAt(calls, i) \o refs.queue, u, r, shown, plans, jobs, agreed)
    PROVE  WorkflowInv' /\ Onward(ui, ui')
<1>1. PICK b \in BOOLEAN : b = (r.pollQueued /\ calls[i].kind # "poll")
    OBVIOUS
<1>2. PICK w : w = [r EXCEPT !.running = None, !.pollQueued = b]
    OBVIOUS
<1>3. w \in Refs /\ AlikeRefs(r, w) /\ w.queue = refs.queue
    BY <1>2 DEF Refs, AlikeRefs
<1>4. /\ Pump(u, w, RemoveAt(calls, i))
      /\ UNCHANGED <<nativeVars, envVars, faults, agreed>>
    BY <1>1, <1>2 DEF EndOperation
<1>5. DialogOK(RemoveAt(calls, i) \o w.queue, u, w, shown, plans, jobs, agreed)
    BY <1>3, SameDialog DEF Alike
<1>6. RemoveAt(calls, i) \in Seq(CallType)
    BY Departed
<1>7. TypesOK /\ EnvOK(shown, update, scans)
    BY DEF WorkflowInv
<1> QED
    BY <1>3, <1>4, <1>5, <1>6, <1>7, Pumped

(* The operation that the dialog waits for ends, and leaves a job shown.   *)
LEMMA Operates ==
    ASSUME WorkflowInv, NEW i \in DOMAIN calls, Counts(calls[i], refs, shown),
           NEW u \in Ui, NEW r \in Refs, EndOperation(i, u, r),
           r.queue = refs.queue, r.generation = refs.generation,
           r.intent = refs.intent, TimerOK(u, r),
           OpenOK(u, shown), ConsentOK(u, shown, agreed), ReviewOK(u, shown, plans),
           JobOK(u, jobs), u.plan = ui.plan, u.job # NoJob, Onward(ui, u)
    PROVE  WorkflowInv' /\ Onward(ui, ui')
<1>1. PICK few : few = RemoveAt(calls, i) \o refs.queue
    OBVIOUS
<1>2. /\ AllAwaited(few, ui, refs, shown, plans, jobs)
      /\ NoneCounts(few, refs, shown)
    BY <1>1, Departed DEF DialogOK
<1>3. ASSUME NEW k \in DOMAIN few
      PROVE  /\ Fits(few[k], plans) /\ Awaited(few[k], u, r, shown, jobs)
             /\ ~Counts(few[k], r, shown)
    <2>1. PICK c : c = few[k]
        OBVIOUS
    <2>2. /\ Fits(c, plans) /\ Awaited(c, ui, refs, shown, jobs)
          /\ ~Counts(c, refs, shown)
        BY <1>2, <2>1 DEF AllAwaited, NoneCounts
    <2>3. OfDialog(c, r) = OfDialog(c, refs) /\ ~Counts(c, r, shown)
        BY <2>2 DEF Counts, OfDialog
    <2>4. Awaited(c, u, r, shown, jobs)
        BY <2>2, <2>3 DEF Awaited
    <2> QED
        BY <2>1, <2>2, <2>3, <2>4
<1>4. /\ AllAwaited(few, u, r, shown, plans, jobs) /\ OneCounts(few, r, shown)
    BY <1>3 DEF AllAwaited, OneCounts
<1>5. DialogOK(few, u, r, shown, plans, jobs, agreed)
    BY <1>4 DEF DialogOK
<1> QED
    BY <1>1, <1>5, Ends

LEMMA ScheduledIs ==
    ASSUME NEW r \in Refs, NEW u, NEW w, w = Scheduled(u, r)
    PROVE  /\ w \in Refs /\ w.queue = r.queue /\ w.generation = r.generation
           /\ w.intent = r.intent /\ TimerOK(u, w)
<1>1. PICK b \in BOOLEAN : b = (/\ u.phase = "active" /\ u.job.status \notin Terminal
                                /\ ~r.cancelPending)
    OBVIOUS
<1>2. w = [r EXCEPT !.timer = b]
    BY <1>1 DEF Scheduled
<1>3. /\ w \in Refs /\ w.queue = r.queue /\ w.generation = r.generation
      /\ w.intent = r.intent /\ w.timer = b
    BY <1>2 DEF Refs
<1> QED
    BY <1>1, <1>3 DEF TimerOK

LEMMA SnapshotStep ==
    ASSUME WorkflowInv, NEW i \in DOMAIN calls, Counts(calls[i], refs, shown),
           calls[i].kind \in {"poll", "cancel"}, calls[i].at = "answered",
           calls[i].answer.ok, NEW r \in Refs, r.queue = refs.queue,
           AlikeRefs(refs, r), SnapshotArrives(i, r)
    PROVE  WorkflowInv' /\ Onward(ui, ui')
<1>1. PICK c : c = calls[i]
    OBVIOUS
<1>2. Fits(c, plans) /\ Awaited(c, ui, refs, shown, jobs) /\ JobOK(ui, jobs)
    BY <1>1, Departed DEF WorkflowInv, DialogOK
<1>3. PICK status : status = c.answer.value
    OBVIOUS
<1>4. /\ c.subject = ui.plan /\ ui.plan \in Plans /\ ui.phase = "active"
      /\ ui.job # NoJob /\ Behind(ui.job.status, status)
      /\ Behind(status, jobs[ui.plan])
    BY <1>1, <1>2, <1>3 DEF Awaited, Counts, JobOK, JobKinds
<1>5. PICK b \in BOOLEAN : b = (c.kind = "cancel")
    OBVIOUS
<1>6. PICK u : u = Shows(status, ui.plan, b)
    OBVIOUS
<1>7. PICK s : s = [r EXCEPT !.failures = 0]
    OBVIOUS
<1>8. PICK w : w = Scheduled(u, s)
    OBVIOUS
<1>9. EndOperation(i, u, w)
    BY <1>1, <1>3, <1>4, <1>5, <1>6, <1>7, <1>8 DEF SnapshotArrives
<1>10. status \in Statuses
    BY <1>4 DEF Behind
<1>11. /\ u \in Ui /\ OpenOK(u, shown) /\ ConsentOK(u, shown, agreed)
       /\ ReviewOK(u, shown, plans) /\ JobOK(u, jobs)
       /\ u.plan = ui.plan /\ u.job # NoJob
       /\ u.job.plan = ui.plan /\ u.job.status = status
    BY <1>4, <1>6, <1>10, ShownSnapshot
<1>12. s \in Refs /\ AlikeRefs(r, s) /\ s.queue = r.queue
    BY <1>7 DEF Refs, AlikeRefs
<1>13. /\ w \in Refs /\ w.queue = refs.queue /\ w.generation = refs.generation
       /\ w.intent = refs.intent /\ TimerOK(u, w)
    BY <1>8, <1>12, ScheduledIs DEF AlikeRefs
<1>14. Onward(ui, u)
    BY <1>2, <1>4, <1>11 DEF Onward, JobOK, Behind
<1> QED
    BY <1>9, <1>11, <1>13, <1>14, Operates

LEMMA FailureStep ==
    ASSUME WorkflowInv, NEW i \in DOMAIN calls, Counts(calls[i], refs, shown),
           calls[i].kind \in {"poll", "cancel"},
           NEW r \in Refs, r.queue = refs.queue, AlikeRefs(refs, r),
           NEW code \in SetupCodes \cup JobCodes, JobOperationFails(i, r, code)
    PROVE  WorkflowInv' /\ Onward(ui, ui')
<1>1. PICK c : c = calls[i]
    OBVIOUS
<1>2. /\ Awaited(c, ui, refs, shown, jobs) /\ JobOK(ui, jobs) /\ ui \in Ui
      /\ OpenOK(ui, shown) /\ ConsentOK(ui, shown, agreed)
    BY <1>1, Departed DEF WorkflowInv, DialogOK, TypesOK
<1>3. /\ ui.phase = "active" /\ ui.job # NoJob /\ ui.job.status \notin Terminal
    BY <1>1, <1>2 DEF Awaited, Counts, JobOK, JobKinds
<1>4. PICK n \in Nat : n = IF c.kind = "poll" THEN r.failures + 1 ELSE r.failures
    BY DEF Refs
<1>5. PICK s : s = [r EXCEPT !.failures = n]
    OBVIOUS
<1>6. s \in Refs /\ AlikeRefs(r, s) /\ s.queue = r.queue
    BY <1>5 DEF Refs, AlikeRefs
<1>7. ASSUME NEW x \in {r, s}, LoseJob(i, x, code)
      PROVE  WorkflowInv' /\ Onward(ui, ui')
    <2>1. PICK u : u = [ui EXCEPT !.phase = "trackingLost", !.operation = "idle",
                                  !.error = code]
        OBVIOUS
    <2>2. PICK w : w = [x EXCEPT !.timer = FALSE, !.cancelPending = FALSE]
        OBVIOUS
    <2>3. EndOperation(i, u, w)
        BY <1>7, <2>1, <2>2 DEF LoseJob
    <2>4. /\ u \in Ui /\ u.phase = "trackingLost" /\ u.job = ui.job
          /\ u.plan = ui.plan /\ u.consent = ui.consent /\ u.policy = ui.policy
        BY <1>2, <2>1 DEF Ui
    <2>5. x \in Refs /\ AlikeRefs(refs, x) /\ x.queue = refs.queue
        BY <1>6 DEF AlikeRefs
    <2>6. /\ w \in Refs /\ w.queue = refs.queue /\ w.generation = refs.generation
          /\ w.intent = refs.intent /\ w.timer = FALSE
        BY <2>2, <2>5 DEF Refs, AlikeRefs
    <2>7. /\ OpenOK(u, shown) /\ ConsentOK(u, shown, agreed)
          /\ ReviewOK(u, shown, plans) /\ JobOK(u, jobs) /\ TimerOK(u, w)
        BY <1>2, <1>3, <2>4, <2>6 DEF OpenOK, ConsentOK, ReviewOK, JobOK, TimerOK
    <2>8. Onward(ui, u)
        BY <1>2, <1>3, <2>4, ForwardIs
        DEF Onward, JobOK, Behind, Statuses, Terminal
    <2> QED
        BY <1>3, <2>3, <2>4, <2>6, <2>7, <2>8, Operates
<1>8. ASSUME NEW u, u = [ui EXCEPT !.phase = "active", !.operation = "idle",
                                   !.error = code],
             EndOperation(i, u, Scheduled(u, s))
      PROVE  WorkflowInv' /\ Onward(ui, ui')
    <2>1. PICK w : w = Scheduled(u, s)
        OBVIOUS
    <2>2. /\ u \in Ui /\ u.phase = ui.phase /\ u.job = ui.job
          /\ u.plan = ui.plan /\ u.consent = ui.consent /\ u.policy = ui.policy
        BY <1>2, <1>3, <1>8 DEF Ui
    <2>3. /\ w \in Refs /\ w.queue = refs.queue /\ w.generation = refs.generation
          /\ w.intent = refs.intent /\ TimerOK(u, w)
        BY <1>6, <2>1, ScheduledIs DEF AlikeRefs
    <2>4. /\ OpenOK(u, shown) /\ ConsentOK(u, shown, agreed)
          /\ ReviewOK(u, shown, plans) /\ JobOK(u, jobs)
        BY <1>2, <1>3, <2>2 DEF OpenOK, ConsentOK, ReviewOK, JobOK
    <2>5. Onward(ui, u)
        BY <1>2, <2>2, OnwardAlike
    <2> QED
        BY <1>3, <1>8, <2>1, <2>2, <2>3, <2>4, <2>5, Operates
<1>9. \/ LoseJob(i, r, code) \/ LoseJob(i, s, code)
      \/ EndOperation(i, [ui EXCEPT !.phase = "active", !.operation = "idle",
                                    !.error = code],
                      Scheduled([ui EXCEPT !.phase = "active", !.operation = "idle",
                                           !.error = code], s))
    BY <1>1, <1>3, <1>4, <1>5 DEF JobOperationFails
<1> QED
    BY <1>7, <1>8, <1>9

LEMMA SettleOperationStep ==
    ASSUME WorkflowInv, NEW kind \in {"poll", "cancel"}, NEW r \in Refs,
           r.queue = refs.queue, AlikeRefs(refs, r), SettleOperation(kind, r)
    PROVE  WorkflowInv' /\ Onward(ui, ui')
<1>1. PICK i \in DOMAIN calls :
         /\ Answered(i, kind)
         /\ IF ~OperationIsCurrent(i) THEN EndOperation(i, ui, r)
            ELSE IF calls[i].answer.ok THEN SnapshotArrives(i, r)
            ELSE JobOperationFails(i, r, calls[i].answer.code)
    BY DEF SettleOperation
<1>2. PICK c : c = calls[i]
    OBVIOUS
<1>3. c.kind = kind /\ c.at = "answered" /\ Fits(c, plans)
    BY <1>1, <1>2, Departed DEF Answered
<1>4. c.answer \in AnswerType
    BY <1>3 DEF Fits
<1>5. OperationIsCurrent(i) => Counts(c, refs, shown)
    BY <1>2, <1>3 DEF OperationIsCurrent, OfThisGeneration, Counts, OfDialog
<1>6. CASE ~OperationIsCurrent(i)
    <2>1. EndOperation(i, ui, r)
        BY <1>1, <1>6
    <2>2. DialogOK(RemoveAt(calls, i) \o refs.queue, ui, refs, shown, plans, jobs, agreed)
        BY Departed
    <2>3. DialogOK(RemoveAt(calls, i) \o refs.queue, ui, r, shown, plans, jobs, agreed)
        BY <2>2, SameDialog DEF Alike
    <2>4. Onward(ui, ui) /\ ui \in Ui
        BY OnwardAlike DEF WorkflowInv, DialogOK, TypesOK
    <2> QED
        BY <2>1, <2>3, <2>4, Ends
<1>7. CASE OperationIsCurrent(i) /\ c.answer.ok
    <2>1. SnapshotArrives(i, r)
        BY <1>1, <1>2, <1>7
    <2> QED
        BY <1>2, <1>3, <1>5, <1>7, <2>1, SnapshotStep
<1>8. CASE OperationIsCurrent(i) /\ ~c.answer.ok
    <2>1. JobOperationFails(i, r, c.answer.code)
        BY <1>1, <1>2, <1>8
    <2>2. c.answer.code \in SetupCodes \cup JobCodes
        BY <1>4, <1>8 DEF AnswerType
    <2> QED
        BY <1>2, <1>3, <1>5, <1>8, <2>1, <2>2, FailureStep
<1> QED
    BY <1>6, <1>7, <1>8

LEMMA SettlePollStep ==
    ASSUME WorkflowInv, SettlePoll
    PROVE  WorkflowInv' /\ Onward(ui, ui')
<1>1. refs \in Refs /\ AlikeRefs(refs, refs) /\ SettleOperation("poll", refs)
    BY DEF WorkflowInv, TypesOK, AlikeRefs, SettlePoll
<1> QED
    BY <1>1, SettleOperationStep

LEMMA SettleCancelStep ==
    ASSUME WorkflowInv, SettleCancel
    PROVE  WorkflowInv' /\ Onward(ui, ui')
<1>1. PICK r : r = [refs EXCEPT !.cancelPending = FALSE]
    OBVIOUS
<1>2. r \in Refs /\ AlikeRefs(refs, r) /\ r.queue = refs.queue
    BY <1>1 DEF WorkflowInv, TypesOK, Refs, AlikeRefs
<1>3. SettleOperation("cancel", r)
    BY <1>1 DEF SettleCancel
<1> QED
    BY <1>2, <1>3, SettleOperationStep

LEMMA SettleOpenStep ==
    ASSUME WorkflowInv, SettleOpen
    PROVE  WorkflowInv' /\ Onward(ui, ui')
<1>1. PICK i \in DOMAIN calls :
         /\ Answered(i, "open")
         /\ EndOperation(i, IF ~OperationIsCurrent(i) THEN ui ELSE
                            [ui EXCEPT !.operation = "idle",
                                       !.error = IF calls[i].answer.ok THEN None
                                                 ELSE calls[i].answer.code],
                         [refs EXCEPT !.openPending = FALSE])
    BY DEF SettleOpen
<1>2. PICK r : r = [refs EXCEPT !.openPending = FALSE]
    OBVIOUS
<1>3. PICK error : error = IF calls[i].answer.ok THEN None ELSE calls[i].answer.code
    OBVIOUS
<1>4. PICK u : u = IF ~OperationIsCurrent(i) THEN ui ELSE
                   [ui EXCEPT !.operation = "idle", !.error = error]
    OBVIOUS
<1>5. EndOperation(i, u, r)
    BY <1>1, <1>2, <1>3, <1>4
<1>6. /\ Fits(calls[i], plans) /\ calls[i].at = "answered"
      /\ DialogOK(RemoveAt(calls, i) \o refs.queue, ui, refs, shown, plans, jobs, agreed)
    BY <1>1, Departed DEF Answered
<1>7. error \in {None} \cup SetupCodes \cup JobCodes
    BY <1>3, <1>6 DEF Fits, AnswerType
<1>8. u \in Ui /\ Alike(ui, u)
    <2>1. ui \in Ui
        BY DEF WorkflowInv, TypesOK
    <2> QED
        BY <1>4, <1>7, <2>1 DEF Ui, Alike
<1>9. r \in Refs /\ AlikeRefs(refs, r) /\ r.queue = refs.queue
    BY <1>2 DEF WorkflowInv, TypesOK, Refs, AlikeRefs
<1>10. DialogOK(RemoveAt(calls, i) \o refs.queue, u, r, shown, plans, jobs, agreed)
    BY <1>6, <1>8, <1>9, SameDialog
<1>11. Onward(ui, u)
    BY <1>8, OnwardAlike DEF WorkflowInv, DialogOK, Alike
<1> QED
    BY <1>5, <1>8, <1>9, <1>10, <1>11, Ends

-----------------------------------------------------------------------------
(* The whole of it.                                                        *)

LEMMA WorkflowInit ==
    ASSUME Init
    PROVE  WorkflowInv
<1>1. /\ scans = [s \in Scans |-> NewSession]
      /\ plans = [p \in Plans |-> NoPlan] /\ jobs = [p \in Plans |-> None]
      /\ shown = NothingShown /\ update = None /\ ui = InitialUi
      /\ calls = <<>> /\ agreed = NoConsent
    BY DEF Init, StoreInit
<1>2. /\ refs \in Refs /\ refs.queue = <<>> /\ refs.timer = FALSE
    <2>1. refs = [generation |-> 0, intent |-> 0, busy |-> {}, queue |-> <<>>,
                  running |-> None, pollQueued |-> FALSE, cancelPending |-> FALSE,
                  openPending |-> FALSE, failures |-> 0, timer |-> FALSE]
        BY DEF Init
    <2>2. <<>> \in Seq({c \in CallType : c.kind \in JobKinds /\ c.at = "sent"})
        OBVIOUS
    <2> QED
        BY <2>1, <2>2 DEF Refs
<1>3. /\ ui \in Ui /\ ui.job = NoJob /\ ui.phase = "idle" /\ ~ui.consent
    BY <1>1, UiTypes
<1>4. NewSession \in Session
    BY StoreAssumption DEF NewSession, Session
<1>5. TypesOK
    BY <1>1, <1>2, <1>3, <1>4 DEF TypesOK, ShownType, NothingShown
<1>6. EnvOK(shown, update, scans)
    BY <1>1 DEF EnvOK, NothingShown, Absent
<1>7. calls \o refs.queue = <<>>
    BY <1>1, <1>2
<1>8. /\ AllAwaited(<<>>, ui, refs, shown, plans, jobs) /\ OneCounts(<<>>, refs, shown)
    BY DEF AllAwaited, OneCounts
<1>9. /\ OpenOK(ui, shown) /\ ConsentOK(ui, shown, agreed)
      /\ ReviewOK(ui, shown, plans) /\ JobOK(ui, jobs) /\ TimerOK(ui, refs)
    BY <1>2, <1>3 DEF OpenOK, ConsentOK, ReviewOK, JobOK, TimerOK
<1> QED
    BY <1>5, <1>6, <1>7, <1>8, <1>9 DEF WorkflowInv, DialogOK

LEMMA WorkflowStep ==
    ASSUME WorkflowInv, [Next]_vars
    PROVE  WorkflowInv' /\ Onward(ui, ui')
<1>1. CASE Environment
    BY <1>1, HideScanStep, ShowScanStep, ShowSelectionStep, ClickSelectionStep,
       TakeUpdateStep DEF Environment
<1>2. CASE User
    BY <1>2, ChooseDestinationStep, SetConsentStep, CreatePlanStep, SetPolicyStep,
       StartStep, CancelStep, OpenDestinationStep, CloseStep DEF User, Policies
<1>3. CASE PollTimer
    BY <1>3, PollTimerStep
<1>4. CASE Settled
    BY <1>4, SettleDestinationStep, SettlePlanStep, SettleStartStep,
       SettlePollStep, SettleCancelStep, SettleOpenStep DEF Settled
<1>5. CASE \E kind \in Commands : NativeCommand(kind)
    BY <1>5, NativeCommandStep
<1>6. CASE \E p \in Plans : JobStep(p)
    BY <1>6, JobStepStep
<1>7. CASE UNCHANGED vars
    <2>1. UNCHANGED <<scans, plans, jobs, shown, update, ui, refs, calls, agreed>>
        BY <1>7 DEF vars, nativeVars, storeVars, envVars
    <2>2. WorkflowInv'
        BY <2>1 DEF WorkflowInv, TypesOK
    <2>3. Onward(ui, ui')
        BY <2>1, OnwardAlike DEF WorkflowInv, DialogOK
    <2> QED
        BY <2>2, <2>3
<1> QED
    BY <1>1, <1>2, <1>3, <1>4, <1>5, <1>6, <1>7 DEF Next

(* Every call in flight or queued is tied to the dialog that waits for it: *)
(* at most one of them can still change the phase, and it is the one that  *)
(* the phase waits for; the rest is told from it by its generation, its    *)
(* intent or its revision.                                                 *)
THEOREM CallsAreAwaited == Spec => []WorkflowInv
<1>1. Init => WorkflowInv
    BY WorkflowInit
<1>2. WorkflowInv /\ [Next]_vars => WorkflowInv'
    BY WorkflowStep
<1> QED
    BY <1>1, <1>2, PTL DEF Spec

(* What the user reviews before start is the plan that was asked for: of   *)
(* the scan, the revision of the selection, the destination and the policy *)
(* that are shown, and agreed to if it recovers some files only in part.   *)
THEOREM ReviewsAreAgreed == Spec => []ReviewIsAsAgreed
<1>1. WorkflowInv => ReviewIsAsAgreed
    <2> SUFFICES ASSUME WorkflowInv, ui.phase = "review"
                 PROVE  LET request == plans[ui.plan]
                        IN  /\ request = [scan |-> shown.scan.scan,
                                          destination |-> ui.destination,
                                          revision |-> shown.selection.revision,
                                          policy |-> ui.policy]
                            /\ NeedsConsent(shown.selection.selected) =>
                                  /\ request.policy = "zeroFillAndMap"
                                  /\ agreed = [scan |-> request.scan,
                                               revision |-> request.revision,
                                               destination |-> request.destination]
        BY DEF ReviewIsAsAgreed
    <2>1. /\ plans[ui.plan] = Wanted(ui, shown) /\ MayPlan(ui, shown)
          /\ ui.consent => agreed = AgreedTo(ui, shown)
        BY DEF WorkflowInv, DialogOK, ReviewOK, ConsentOK
    <2>2. AgreedTo(ui, shown) = [scan |-> shown.scan.scan,
                                 revision |-> shown.selection.revision,
                                 destination |-> ui.destination]
        BY DEF AgreedTo
    <2> QED
        BY <2>1, <2>2 DEF Wanted, MayPlan
<1> QED
    BY <1>1, CallsAreAwaited, PTL

(* The job that is shown is the one of the plan that was reviewed, moves   *)
(* only forward, and is finished on the screen when it is; a job whose end *)
(* or loss was shown stays so until the dialog is left.                    *)
THEOREM DialogsFollowTheirJob == Spec => DialogFollowsItsJob
<1> DEFINE A == /\ ShownJob' => ui'.job.plan = ui'.plan /\ ui'.phase # "idle"
                /\ ui'.phase = "finished" => ui'.job.status = jobs'[ui'.plan]
                /\ ShownJob /\ ShownJob' /\ shown.scan = shown'.scan =>
                      /\ ui.job.plan = ui'.job.plan
                      /\ Forward[ui.job.status] <= Forward[ui'.job.status]
                /\ ui.phase \in {"trackingLost", "finished"} =>
                      ui'.phase \in {ui.phase, "idle"}
<1>1. WorkflowInv /\ [Next]_vars => A
    <2> SUFFICES ASSUME WorkflowInv, [Next]_vars PROVE A
        OBVIOUS
    <2>1. WorkflowInv' /\ Onward(ui, ui')
        BY WorkflowStep
    <2>2. PICK v : v = ui'
        OBVIOUS
    <2>3. PICK j : j = jobs'
        OBVIOUS
    <2>4. JobOK(v, j)
        <3>1. (DialogOK(calls \o refs.queue, ui, refs, shown, plans, jobs, agreed))'
            BY <2>1 DEF WorkflowInv
        <3>2. DialogOK((calls \o refs.queue)', v, refs', shown', plans', j, agreed')
            BY <3>1, <2>2, <2>3
        <3> QED
            BY <3>2 DEF DialogOK
    <2>5. v.job # NoJob => v.job.plan = v.plan /\ v.phase # "idle"
        BY <2>4 DEF JobOK
    <2>6. v.phase = "finished" => v.job.status = j[v.plan]
        BY <2>4 DEF JobOK, Behind
    <2> QED
        BY <2>1, <2>2, <2>3, <2>5, <2>6 DEF Onward, ShownJob
<1>2. WorkflowInv /\ [Next]_vars => [A]_vars
    BY <1>1
<1> QED
    BY <1>2, CallsAreAwaited, PTL DEF Spec, DialogFollowsItsJob

=============================================================================
