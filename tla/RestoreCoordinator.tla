------------------------- MODULE RestoreCoordinator -------------------------
(***************************************************************************)
(* The desktop's restore commands and workers,                             *)
(* apps/desktop/src-tauri/src/restore.rs, with the sessions they depend    *)
(* on.  Commands run on blocking threads and overlap.  Each takes the      *)
(* storage or the coordinator lock for one short section, does destination *)
(* I/O and planning without a lock, and checks again in the next section:  *)
(* an action is one section, together with the I/O before it, which may    *)
(* fail.  A start commits under both locks, storage first, and no code     *)
(* takes them the other way round.  A worker is a thread per job; it runs  *)
(* the engine, which reports as EngineReports says, and writes what it is  *)
(* told to the job under the job's own lock.                               *)
(*                                                                         *)
(* Abstracted: digests, labels, warnings, policies and paths; free space   *)
(* and disk separation are ways for the I/O to fail; every item has        *)
(* ItemBytes bytes.  A plan and its job are named by one id, since         *)
(* engine_job_id is created with the plan and is the job's id.             *)
(***************************************************************************)
EXTENDS SelectionStore, Integers, FiniteSets, EngineReports

CONSTANTS
    Callers,            \* commands that can be in flight
    Destinations,       \* destination ids
    Plans,              \* plan ids, and the ids of their jobs
    MaxDestinations,    \* MAX_DESTINATION_AUTHORITIES
    MaxPlans,           \* MAX_RETAINED_RESTORE_PLANS
    MaxJobs,            \* MAX_RETAINED_RESTORE_JOBS
    ItemBytes           \* bytes of an item

ASSUME LimitsAssumption ==
    /\ MaxDestinations \in Nat /\ MaxPlans \in Nat /\ MaxJobs \in Nat
    /\ ItemBytes \in Nat

(* A scan finds finitely many candidates.                                  *)
ASSUME CandidatesAssumption == IsFiniteSet(Candidates)

VARIABLES
    destinations,   \* inner.destinations: id -> the scan it is bound to
    plans,          \* inner.plans
    jobs,           \* inner.jobs
    workers,        \* per plan: how many worker threads were ever spawned
    call            \* per caller: the command between two lock sections

vars == <<storeVars, destinations, plans, jobs, workers, call>>

-----------------------------------------------------------------------------
(* Data.                                                                   *)

Unbound == [bound |-> FALSE]
Bound(s) == [bound |-> TRUE, scan |-> s]

NoPlan == [retained |-> FALSE]
RetainedPlan ==
    [retained : {TRUE}, scan : Scans, revision : 0 .. MaxRevision,
     selected : SUBSET Candidates, destination : Destinations,
     started : BOOLEAN]

Statuses == {"queued", "running", "cancelling",
             "completed", "failed", "cancelled"}
Terminal == {"completed", "failed", "cancelled"}

NoItem     == -1
NoManifest == -1

(* RetainedRestoreJob.  manifest is published_items of the summary.        *)
Job ==
    [retained  : {TRUE},
     thread    : {"none", "spawned", "opened", "ended"},
     asked     : BOOLEAN,           \* the cancel flag
     status    : Statuses,
     completed : Nat, failed : Nat, cancelled : Nat,
     committed : Nat, current : Nat,
     item      : Nat \cup {NoItem},
     manifest  : Nat \cup {NoManifest},
     engine    : EngineReport]

NoJob     == [retained |-> FALSE]
QueuedJob ==
    [retained |-> TRUE, thread |-> "none", asked |-> FALSE, status |-> "queued",
     completed |-> 0, failed |-> 0, cancelled |-> 0,
     committed |-> 0, current |-> 0,
     item |-> NoItem, manifest |-> NoManifest, engine |-> NoReport]

ItemsTotal(p) == Cardinality(plans[p].selected)
BytesTotal(p) == ItemsTotal(p) * ItemBytes

Idle == [at |-> "idle"]
Return(c)     == call' = [call EXCEPT ![c] = Idle]
Continue(c, step) == call' = [call EXCEPT ![c] = step]
At(c, label)  == call[c].at = label

RetainedPlans == {p \in Plans : plans[p].retained}
RetainedJobs  == {p \in Plans : jobs[p].retained}
BoundDestinations == {d \in Destinations : destinations[d].bound}

Init ==
    /\ StoreInit
    /\ destinations = [d \in Destinations |-> Unbound]
    /\ plans = [p \in Plans |-> NoPlan]
    /\ jobs = [p \in Plans |-> NoJob]
    /\ workers = [p \in Plans |-> 0]
    /\ call = [c \in Callers |-> Idle]

-----------------------------------------------------------------------------
(* The session the user works on.                                          *)

StoreStep ==
    /\ StoreNext
    /\ UNCHANGED <<destinations, plans, jobs, workers, call>>

-----------------------------------------------------------------------------
(* select_restore_destination.                                             *)

OpenPicker(c, s) ==
    /\ At(c, "idle") /\ Kept(s)
    /\ Continue(c, [at |-> "picker", scan |-> s])
    /\ UNCHANGED <<storeVars, destinations, plans, jobs, workers>>

(* The picker is cancelled, the folder cannot be bound, or the session is  *)
(* looked up again.                                                        *)
ClosePicker(c) ==
    /\ At(c, "picker")
    /\ \/ Return(c)
       \/ /\ Kept(call[c].scan)
          /\ Continue(c, [at |-> "admit", scan |-> call[c].scan])
    /\ UNCHANGED <<storeVars, destinations, plans, jobs, workers>>

AdmitDestination(c) ==
    /\ At(c, "admit")
    /\ Return(c)
    /\ \/ UNCHANGED destinations
       \/ /\ Cardinality(BoundDestinations) < MaxDestinations
          /\ \E d \in Destinations \ BoundDestinations :
                destinations' = [destinations EXCEPT ![d] = Bound(call[c].scan)]
    /\ UNCHANGED <<storeVars, plans, jobs, workers>>

-----------------------------------------------------------------------------
(* create_restore_plan.                                                    *)

(* restore_snapshot with the revision the client knows; a stale one is     *)
(* refused and changes nothing.                                            *)
SnapshotSelection(c, s, d) ==
    /\ At(c, "idle") /\ Kept(s)
    /\ Continue(c, [at |-> "checkPlan", destination |-> d,
                    snapshot |-> [scan |-> s, revision |-> scans[s].revision,
                                  selected |-> scans[s].selected]])
    /\ UNCHANGED <<storeVars, destinations, plans, jobs, workers>>

DestinationServes(d, s) == destinations[d] = Bound(s)

CanRetainPlan(c) ==
    /\ Cardinality(RetainedPlans) < MaxPlans
    /\ DestinationServes(call[c].destination, call[c].snapshot.scan)

CheckPlan(c) ==
    /\ At(c, "checkPlan")
    /\ IF call[c].snapshot.selected # {} /\ CanRetainPlan(c)
       THEN Continue(c, [call[c] EXCEPT !.at = "insertPlan"])
       ELSE Return(c)
    /\ UNCHANGED <<storeVars, destinations, plans, jobs, workers>>

NewPlan(c) ==
    [retained |-> TRUE, scan |-> call[c].snapshot.scan,
     revision |-> call[c].snapshot.revision,
     selected |-> call[c].snapshot.selected,
     destination |-> call[c].destination, started |-> FALSE]

(* Bug: the limit is not looked at again.                                  *)
InsertPlanUncheckedBug(c) ==
    /\ At(c, "insertPlan")
    /\ Return(c)
    /\ \E p \in Plans \ RetainedPlans : plans' = [plans EXCEPT ![p] = NewPlan(c)]
    /\ UNCHANGED <<storeVars, destinations, jobs, workers>>

(* Destination I/O and planning fail, or the plan is retained under a      *)
(* fresh id if it still can be.                                            *)
InsertPlan(c) ==
    /\ At(c, "insertPlan")
    /\ Return(c)
    /\ \/ UNCHANGED plans
       \/ /\ CanRetainPlan(c)
          /\ \E p \in Plans \ RetainedPlans :
                plans' = [plans EXCEPT ![p] = NewPlan(c)]
    /\ UNCHANGED <<storeVars, destinations, jobs, workers>>

-----------------------------------------------------------------------------
(* start_restore.                                                          *)

CanStart(p) ==
    /\ plans[p].retained /\ ~plans[p].started
    /\ Cardinality(RetainedJobs) < MaxJobs

(* plan_binding and preflight_restore_start: what they read of a plan does *)
(* not change while it is retained.                                        *)
Preflight(c, p) ==
    /\ At(c, "idle") /\ CanStart(p)
    /\ Continue(c, [at |-> "commit", plan |-> p])
    /\ UNCHANGED <<storeVars, destinations, plans, jobs, workers>>

(* Bug: the selection is that of the preflight.                            *)
SelectionStillHoldsBug(p) == Kept(plans[p].scan)

(* with_restore_start_selection and validate_plan_start_fields.            *)
SelectionStillHolds(p) ==
    /\ Kept(plans[p].scan)
    /\ scans[plans[p].scan].revision = plans[p].revision
    /\ scans[plans[p].scan].selected = plans[p].selected

(* Bug: the preflight's answer is taken for granted.                       *)
CommitStartUncheckedBug(c) ==
    LET p == call[c].plan
    IN  /\ At(c, "commit")
        /\ SelectionStillHolds(p)
        /\ plans' = [plans EXCEPT ![p].started = TRUE]
        /\ jobs' = [jobs EXCEPT ![p] = QueuedJob]
        /\ Continue(c, [at |-> "launch", plan |-> p])
        /\ UNCHANGED <<storeVars, destinations, workers>>

(* The I/O of the preflight fails, the commit is refused, or the plan is   *)
(* consumed and its job queued.                                            *)
CommitStart(c) ==
    LET p == call[c].plan
    IN  /\ At(c, "commit")
        /\ \/ Return(c) /\ UNCHANGED <<plans, jobs>>
           \/ /\ SelectionStillHolds(p) /\ CanStart(p)
              /\ DestinationServes(plans[p].destination, plans[p].scan)
              /\ ~jobs[p].retained
              /\ plans' = [plans EXCEPT ![p].started = TRUE]
              /\ jobs' = [jobs EXCEPT ![p] = QueuedJob]
              /\ Continue(c, [at |-> "launch", plan |-> p])
        /\ UNCHANGED <<storeVars, destinations, workers>>

(* launch_restore.  A thread that cannot be spawned fails the job, which   *)
(* is withdrawn in the next section.                                       *)
Launch(c) ==
    LET p == call[c].plan
    IN  /\ At(c, "launch")
        /\ \/ /\ workers' = [workers EXCEPT ![p] = @ + 1]
              /\ jobs' = [jobs EXCEPT ![p].thread = "spawned"]
              /\ Return(c)
           \/ /\ jobs' = [jobs EXCEPT ![p].status = "failed"]
              /\ Continue(c, [at |-> "withdraw", plan |-> p])
              /\ UNCHANGED workers
        /\ UNCHANGED <<storeVars, destinations, plans>>

Withdraw(c) ==
    /\ At(c, "withdraw")
    /\ jobs' = [jobs EXCEPT ![call[c].plan] = NoJob]
    /\ plans' = [plans EXCEPT ![call[c].plan].started = FALSE]
    /\ Return(c)
    /\ UNCHANGED <<storeVars, destinations, workers>>

-----------------------------------------------------------------------------
(* cancel_restore, for a job whose start has returned: the flag, then the  *)
(* status under the job's lock.                                            *)

RequestCancel(c, p) ==
    /\ At(c, "idle") /\ jobs[p].retained /\ jobs[p].thread # "none"
    /\ jobs' = [jobs EXCEPT ![p].asked = TRUE]
    /\ Continue(c, [at |-> "cancel", plan |-> p])
    /\ UNCHANGED <<storeVars, destinations, plans, workers>>

(* Bug: a job that has ended is marked too.                                *)
CancelledStatusBug(status) == "cancelling"

CancelledStatus(status) ==
    IF status \in {"queued", "running"} THEN "cancelling" ELSE status

MarkCancelling(c) ==
    /\ At(c, "cancel")
    /\ jobs' = [jobs EXCEPT ![call[c].plan].status = CancelledStatus(@)]
    /\ Return(c)
    /\ UNCHANGED <<storeVars, destinations, plans, workers>>

-----------------------------------------------------------------------------
(* run_restore_worker.                                                     *)

WorkerStep(p, thread, job) ==
    /\ jobs[p].retained /\ jobs[p].thread = thread
    /\ jobs' = [jobs EXCEPT ![p] = job]
    /\ UNCHANGED <<storeVars, destinations, plans, workers, call>>

(* Bug: a cancellation that came first is overwritten.                     *)
BegunBug(j) == [j EXCEPT !.status = "running"]

Begun(j) == IF j.status = "queued" THEN [j EXCEPT !.status = "running"] ELSE j

(* fail_job.                                                               *)
FailedAs(j, status, published) ==
    [j EXCEPT !.thread = "ended", !.item = NoItem, !.current = 0,
              !.manifest = published, !.status = status]

(* Bug: the early return forgets the job.                                  *)
OpenFailedBug(j) == [j EXCEPT !.thread = "ended"]

OpenFailed(j) == FailedAs(j, "failed", NoManifest)

BeginWorker(p) ==
    WorkerStep(p, "spawned", [Begun(jobs[p]) EXCEPT !.thread = "opened"])

(* The source cannot be opened, or is not the one that was scanned.        *)
OpenSourceFails(p) ==
    /\ jobs[p].retained /\ jobs[p].engine = NoReport
    /\ WorkerStep(p, "opened", OpenFailed(jobs[p]))

(* Bug: a directory that needs reconciliation is not counted.              *)
ObservedBug(j, e) ==
    CASE e.open /\ ~j.engine.open -> [j EXCEPT !.item = j.engine.done, !.current = 0]
      [] ~e.open /\ j.engine.open ->
            [j EXCEPT !.committed = @ + j.current, !.current = 0, !.item = NoItem,
                      !.completed = IF e.bad = "none" THEN @ + 1 ELSE @,
                      !.failed    = IF e.bad = "failed" THEN @ + 1 ELSE @,
                      !.cancelled = IF e.bad = "cancelled" THEN @ + 1 ELSE @]
      [] OTHER -> j

(* JobObserver: what the job shows after the engine's report became e.     *)
Observed(j, e) ==
    CASE e.open /\ ~j.engine.open -> [j EXCEPT !.item = j.engine.done, !.current = 0]
      [] ~e.open /\ j.engine.open ->
            [j EXCEPT !.committed = @ + j.current, !.current = 0, !.item = NoItem,
                      !.completed = @ + (e.done - j.engine.done),
                      !.failed    = IF e.bad = "failed" THEN @ + 1 ELSE @,
                      !.cancelled = IF e.bad = "cancelled" THEN @ + 1 ELSE @]
      [] OTHER -> j

EngineReportsTo(p) ==
    /\ jobs[p].retained
    /\ \E e \in EngineStep(jobs[p].engine, ItemsTotal(p), jobs[p].asked) :
          WorkerStep(p, "opened", [Observed(jobs[p], e) EXCEPT !.engine = e])

(* JobProgress, while an item is streamed.                                 *)
Stream(p) ==
    /\ jobs[p].retained /\ jobs[p].engine.open
    /\ jobs[p].engine.answer = "none" /\ jobs[p].current < ItemBytes
    /\ WorkerStep(p, "opened", [jobs[p] EXCEPT !.current = @ + 1])

(* commit_engine_success_terminal; the manifest of a success lists every   *)
(* item of the plan.  When the counters disagree they are overwritten.     *)
CompletedAs(j, total, bytes) ==
    LET agreed == j.completed = total /\ j.failed = 0 /\ j.cancelled = 0
    IN  [j EXCEPT !.thread = "ended", !.item = NoItem, !.current = 0,
                  !.manifest = total, !.committed = bytes,
                  !.completed = total, !.failed = 0, !.cancelled = 0,
                  !.status = IF agreed THEN "completed" ELSE "failed"]

PendingManifest(j) == IF j.engine.announced THEN j.engine.done ELSE NoManifest

EndWorker(p) ==
    /\ jobs[p].retained /\ jobs[p].engine.answer # "none"
    /\ LET j == jobs[p]
       IN  WorkerStep(p, "opened",
              CASE j.engine.answer = "ok" ->
                      CompletedAs(j, ItemsTotal(p), BytesTotal(p))
                [] j.engine.answer = "cancelled" ->
                      FailedAs(j, "cancelled", PendingManifest(j))
                [] OTHER -> FailedAs(j, "failed", PendingManifest(j)))

-----------------------------------------------------------------------------

CommandSection(c) ==
    \/ AdmitDestination(c) \/ CheckPlan(c) \/ InsertPlan(c)
    \/ CommitStart(c) \/ Launch(c) \/ Withdraw(c) \/ MarkCancelling(c)

Command(c) ==
    \/ \E s \in Scans : OpenPicker(c, s)
    \/ ClosePicker(c)
    \/ \E s \in Scans, d \in Destinations : SnapshotSelection(c, s, d)
    \/ \E p \in Plans : Preflight(c, p) \/ RequestCancel(c, p)
    \/ CommandSection(c)

Worker(p) ==
    \/ BeginWorker(p) \/ OpenSourceFails(p) \/ EngineReportsTo(p)
    \/ Stream(p) \/ EndWorker(p)

Next ==
    \/ StoreStep
    \/ \E c \in Callers : Command(c)
    \/ \E p \in Plans : Worker(p)

Spec == Init /\ [][Next]_vars

(* A command that was begun runs on a thread of its own to its end, only   *)
(* the picker waits for the user; and a worker thread runs.                *)
FairSpec ==
    /\ Spec
    /\ \A c \in Callers : WF_vars(CommandSection(c))
    /\ \A p \in Plans : WF_vars(Worker(p))

-----------------------------------------------------------------------------
(* Properties.                                                             *)

Calls ==
    {Idle}
    \cup [at : {"picker", "admit"}, scan : Scans]
    \cup [at : {"checkPlan", "insertPlan"}, destination : Destinations,
          snapshot : [scan : Scans, revision : 0 .. MaxRevision,
                      selected : SUBSET Candidates]]
    \cup [at : {"commit", "launch", "withdraw", "cancel"}, plan : Plans]

(* Every variable keeps its type.                                          *)
TypeOK ==
    /\ StoreTypeOK
    /\ destinations \in [Destinations ->
                            {Unbound} \cup {Bound(s) : s \in Scans}]
    /\ plans \in [Plans -> {NoPlan} \cup RetainedPlan]
    /\ jobs \in [Plans -> {NoJob} \cup Job]
    /\ workers \in [Plans -> Nat]
    /\ call \in [Callers -> Calls]

(* However many starts of one plan are in flight, and however often a      *)
(* thread cannot be spawned, at most one worker ever runs it.              *)
OneWorkerPerPlan == \A p \in Plans : workers[p] <= 1

(* A plan is consumed exactly while its job is retained: a start that      *)
(* failed leaves a plan that can be started again, and a plan that cannot  *)
(* be started has a job the user can look at.                              *)
StartedIffJob ==
    \A p \in Plans : jobs[p].retained <=> (plans[p].retained /\ plans[p].started)

(* Both: whatever overlaps and whatever fails, a plan runs at most once,   *)
(* and no start of it is left half done.                                   *)
PlansRunOnce == OneWorkerPerPlan /\ StartedIffJob

(* The revision is as good as the selection: a plan whose revision is the  *)
(* session's was made from the session's present selection.                *)
RevisionNamesSelection ==
    \A p \in RetainedPlans :
       Kept(plans[p].scan) /\ scans[plans[p].scan].revision = plans[p].revision =>
          scans[plans[p].scan].selected = plans[p].selected

(* A start takes effect only while the selection the plan was made from is *)
(* still the session's: whoever changed it in between, the job is refused. *)
StartsConfirmedSelection ==
    [][\A p \in Plans :
          ~jobs[p].retained /\ jobs'[p].retained =>
             /\ Kept(plans[p].scan)
             /\ scans[plans[p].scan].selected = plans[p].selected]_vars

(* The lists are bounded although they are measured before and after the   *)
(* I/O of several commands at once.                                        *)
RetentionBounds ==
    /\ Cardinality(BoundDestinations) <= MaxDestinations
    /\ Cardinality(RetainedPlans) <= MaxPlans
    /\ Cardinality(RetainedJobs) <= MaxJobs

Launched(p) == jobs[p].retained /\ jobs[p].thread # "none"

(* Once cancel_restore has answered, the job is never again shown as       *)
(* queued or running, also when the worker begins at that moment.          *)
CancelSticks ==
    \A p \in Plans :
       Launched(p) /\ jobs[p].asked =>
          \/ jobs[p].status \notin {"queued", "running"}
          \/ \E c \in Callers : At(c, "cancel") /\ call[c].plan = p

-----------------------------------------------------------------------------
(* The contract of the front end, parseRestoreJobSnapshot of               *)
(* apps/desktop/src/api/storage.ts.  A snapshot it does not accept ends    *)
(* the tracking of the job.                                                *)

Dispositions(j) == j.completed + j.failed + j.cancelled
ShownBytes(p) ==
    LET bytes == jobs[p].committed + jobs[p].current
    IN  IF bytes < BytesTotal(p) THEN bytes ELSE BytesTotal(p)
ShownManifest(j) == IF j.status \in Terminal THEN j.manifest ELSE NoManifest

(* Every snapshot of a launched job is acceptable in itself, and its end   *)
(* is the engine's: completed exactly when it answered ok (the counters    *)
(* never disagree with its manifest), cancelled only when the user asked,  *)
(* and terminal only when the worker has ended.                            *)
SnapshotsAreTrue ==
    \A p \in Plans : Launched(p) =>
       LET j == jobs[p]
       IN  /\ Dispositions(j) <= ItemsTotal(p)
           /\ ShownManifest(j) # NoManifest => ShownManifest(j) <= j.completed
           /\ j.item # NoItem =>
                 /\ j.item = Dispositions(j) /\ j.item < ItemsTotal(p)
                 /\ j.status \in {"running", "cancelling"}
           /\ j.status = "queued" => Dispositions(j) = 0 /\ ShownBytes(p) = 0
           /\ j.status = "completed" =>
                 /\ j.completed = ItemsTotal(p) /\ ShownBytes(p) = BytesTotal(p)
                 /\ ShownManifest(j) = ItemsTotal(p)
           /\ j.status \in Terminal <=> j.thread = "ended"
           /\ j.thread = "ended" => (j.status = "completed" <=> j.engine.answer = "ok")
           /\ j.status = "cancelled" => j.asked

LegalTransitions ==
    [queued     |-> Statuses,
     running    |-> Statuses \ {"queued"},
     cancelling |-> Terminal \cup {"cancelling"},
     completed  |-> {"completed"},
     failed     |-> {"failed"},
     cancelled  |-> {"cancelled"}]

(* j may be followed by k, but for the bytes.                              *)
Follows(j, k) ==
    /\ k.status \in LegalTransitions[j.status]
    /\ j.completed <= k.completed /\ j.failed <= k.failed
    /\ j.cancelled <= k.cancelled
    /\ j.item # NoItem /\ k.item # NoItem => j.item <= k.item
    /\ j.item # NoItem /\ k.item = NoItem /\ k.status \notin Terminal =>
          Dispositions(j) < Dispositions(k)
    /\ j.status \in Terminal =>
          /\ Dispositions(j) = Dispositions(k)
          /\ ShownManifest(j) = ShownManifest(k)

(* What the user is shown of a launched job only moves forward, and a      *)
(* terminal snapshot is final: late cancellations, workers that begin late *)
(* and overwritten counters included.  Each conjunct of Follows is         *)
(* transitive, so it holds of any two polls if it holds of every step.     *)
SnapshotsAdvance ==
    [][\A p \in Plans :
          Launched(p) => jobs'[p].retained /\ Follows(jobs[p], jobs'[p])]_vars

(* storage.ts:1384: a snapshot with fewer bytes than the last is refused.  *)
ShownBytesNeverDecrease ==
    [][\A p \in Plans : Launched(p) => ShownBytes(p) <= ShownBytes(p)']_vars

(* Every launched job is eventually shown as ended.                        *)
JobsEnd ==
    \A p \in Plans :
       Launched(p) ~> (jobs[p].retained /\ jobs[p].status \in Terminal)
=============================================================================
