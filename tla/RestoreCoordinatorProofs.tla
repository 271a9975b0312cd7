---------------------- MODULE RestoreCoordinatorProofs ----------------------
(***************************************************************************)
(* Machine-checked proofs about RestoreCoordinator, for every number of    *)
(* commands in flight, plans, sessions and candidates, and every limit.    *)
(***************************************************************************)
EXTENDS RestoreCoordinator, FiniteSetTheorems, SequenceTheorems, TLAPS

USE StoreAssumption, LimitsAssumption, CandidatesAssumption

-----------------------------------------------------------------------------
(* Types of the pieces.                                                    *)

PlansType == plans \in [Plans -> {NoPlan} \cup RetainedPlan]
JobsType  == jobs \in [Plans -> {NoJob} \cup Job]
CallType  == call \in [Callers -> Calls]
DestinationsType ==
    destinations \in [Destinations -> {Unbound} \cup {Bound(s) : s \in Scans}]

LEMMA ItemsTotalType ==
    ASSUME NEW p \in Plans, PlansType, plans[p].retained
    PROVE  ItemsTotal(p) \in Nat /\ BytesTotal(p) \in Nat
  <1>1. plans[p] \in RetainedPlan
    BY DEF PlansType, NoPlan
  <1>2. plans[p].selected \subseteq Candidates
    BY <1>1 DEF RetainedPlan
  <1>3. Cardinality(plans[p].selected) \in Nat
    BY <1>2, FS_Subset, FS_CardinalityType
  <1> QED BY <1>3 DEF ItemsTotal, BytesTotal

LEMMA RetainedJobType ==
    ASSUME NEW p \in Plans, JobsType, jobs[p].retained
    PROVE  jobs[p] \in Job
  BY DEF JobsType, NoJob

(* A finished item changes at most done and bad, besides open.             *)
Finished(e, d, b) == [e EXCEPT !.open = FALSE, !.done = d, !.bad = b]

LEMMA FinishedForms ==
    ASSUME NEW e \in EngineReport, NEW asked \in BOOLEAN,
           NEW f \in ItemFinished(e, asked)
    PROVE  /\ e.open
           /\ \E d \in {e.done, e.done + 1}, b \in BadOutcomes \cup {"none"} :
                 /\ f = Finished(e, d, b)
                 /\ \/ d = e.done + 1 /\ b \in {e.bad, "reconcile"}
                    \/ d = e.done /\ b = "failed"
                    \/ d = e.done /\ b = "cancelled" /\ asked
  <1>1. /\ e.open
        /\ \/ f = [e EXCEPT !.open = FALSE, !.done = e.done + 1]
           \/ f = [e EXCEPT !.open = FALSE, !.bad = "failed"]
           \/ f = [e EXCEPT !.open = FALSE, !.done = e.done + 1, !.bad = "reconcile"]
           \/ asked /\ f = [e EXCEPT !.open = FALSE, !.bad = "cancelled"]
    BY Zenon DEF ItemFinished, When
  <1>2. [e EXCEPT !.open = FALSE, !.done = e.done + 1] = Finished(e, e.done + 1, e.bad)
    BY DEF EngineReport, Finished
  <1>3. /\ [e EXCEPT !.open = FALSE, !.bad = "failed"] = Finished(e, e.done, "failed")
        /\ [e EXCEPT !.open = FALSE, !.bad = "cancelled"] = Finished(e, e.done, "cancelled")
        /\ [e EXCEPT !.open = FALSE, !.done = e.done + 1, !.bad = "reconcile"]
              = Finished(e, e.done + 1, "reconcile")
    BY DEF EngineReport, Finished
  <1>4. e.bad \in BadOutcomes \cup {"none"}
    BY DEF EngineReport
  <1>5. {"failed", "cancelled", "reconcile"} \subseteq BadOutcomes
    BY DEF BadOutcomes
  <1>6. PICK d \in {e.done, e.done + 1}, b \in BadOutcomes \cup {"none"} :
           /\ f = Finished(e, d, b)
           /\ \/ d = e.done + 1 /\ b \in {e.bad, "reconcile"}
              \/ d = e.done /\ b = "failed"
              \/ d = e.done /\ b = "cancelled" /\ asked
    <2>1. CASE f = Finished(e, e.done + 1, e.bad)
      BY <1>4, <2>1
    <2>2. CASE f = Finished(e, e.done, "failed")
      BY <1>5, <2>2
    <2>3. CASE f = Finished(e, e.done + 1, "reconcile")
      BY <1>5, <2>3
    <2>4. CASE asked /\ f = Finished(e, e.done, "cancelled")
      BY <1>5, <2>4
    <2>5. \/ f = Finished(e, e.done + 1, e.bad)
          \/ f = Finished(e, e.done, "failed")
          \/ f = Finished(e, e.done + 1, "reconcile")
          \/ asked /\ f = Finished(e, e.done, "cancelled")
      <3>1. CASE f = [e EXCEPT !.open = FALSE, !.done = e.done + 1]
        BY <1>2, <3>1, Zenon
      <3>2. CASE f = [e EXCEPT !.open = FALSE, !.bad = "failed"]
        BY <1>3, <3>2, Zenon
      <3>3. CASE f = [e EXCEPT !.open = FALSE, !.done = e.done + 1, !.bad = "reconcile"]
        BY <1>3, <3>3, Zenon
      <3>4. CASE asked /\ f = [e EXCEPT !.open = FALSE, !.bad = "cancelled"]
        BY <1>3, <3>4, Zenon
      <3> QED BY <1>1, <3>1, <3>2, <3>3, <3>4, Zenon
    <2> QED BY <2>1, <2>2, <2>3, <2>4, <2>5
  <1> QED BY <1>1, <1>6

(* What the engine reports next has its type, and items are never          *)
(* unfinished.                                                             *)
LEMMA EngineStepType ==
    ASSUME NEW e \in EngineReport, NEW n \in Nat, NEW asked \in BOOLEAN,
           NEW f \in EngineStep(e, n, asked)
    PROVE  f \in EngineReport /\ f.done >= e.done
  <1>0. e.done \in Nat /\ e.done + 1 \in Nat
    BY DEF EngineReport
  <1>1. CASE f \in ItemStarted(e, n)
    <2>1. f = [e EXCEPT !.open = TRUE]
      BY <1>1 DEF ItemStarted, When
    <2>2. f \in EngineReport
      BY <2>1, Zenon DEF EngineReport
    <2>3. f.done = e.done
      BY <2>1 DEF EngineReport
    <2> QED BY <1>0, <2>2, <2>3
  <1>2. CASE f \in ItemFinished(e, asked)
    <2>1. PICK d \in {e.done, e.done + 1}, b \in BadOutcomes \cup {"none"} :
             f = Finished(e, d, b)
      BY <1>2, FinishedForms
    <2>2. f = [e EXCEPT !.open = FALSE, !.done = d, !.bad = b]
      BY <2>1 DEF Finished
    <2>3. d \in Nat /\ d >= e.done
      BY <1>0
    <2>4. f \in EngineReport
      BY <2>2, <2>3, Zenon DEF EngineReport
    <2>5. f.done = d
      BY <2>2, Zenon DEF EngineReport
    <2> QED BY <2>3, <2>4, <2>5
  <1>3. CASE f \in CallReturned(e, n)
    <2>1. \/ f = [e EXCEPT !.answer = "error"]
          \/ \E a \in {"ok", "cancelled", "error"} :
                f = [e EXCEPT !.announced = TRUE, !.answer = a]
      BY <1>3 DEF CallReturned, When
    <2>2. f \in EngineReport
      BY <2>1, Zenon DEF EngineReport
    <2>3. f.done = e.done
      BY <2>1, Zenon DEF EngineReport
    <2> QED BY <1>0, <2>2, <2>3
  <1> QED BY <1>1, <1>2, <1>3 DEF EngineStep, When

(* A worker's writes keep the type of the job, the job retained and its    *)
(* thread a thread.                                                        *)
LEMMA ObservedType ==
    ASSUME NEW j \in Job, NEW e \in EngineReport, e.done >= j.engine.done
    PROVE  /\ [Observed(j, e) EXCEPT !.engine = e] \in Job
           /\ [Observed(j, e) EXCEPT !.engine = e].thread = j.thread
  <1>1. j.engine.done \in Nat /\ e.done \in Nat /\ j.engine.open \in BOOLEAN
        /\ e.open \in BOOLEAN /\ e.done - j.engine.done \in Nat
    BY DEF Job, EngineReport
  <1>2. /\ j.committed + j.current \in Nat
        /\ j.completed + (e.done - j.engine.done) \in Nat
        /\ (IF e.bad = "failed" THEN j.failed + 1 ELSE j.failed) \in Nat
        /\ (IF e.bad = "cancelled" THEN j.cancelled + 1 ELSE j.cancelled) \in Nat
    BY <1>1 DEF Job
  <1>3. Observed(j, e) \in Job /\ Observed(j, e).thread = j.thread
    <2>1. CASE e.open /\ ~j.engine.open
      <3>1. Observed(j, e) = [j EXCEPT !.item = j.engine.done, !.current = 0]
        BY <2>1 DEF Observed
      <3>2. j.engine.done \in Nat \cup {NoItem} /\ 0 \in Nat
        BY <1>1
      <3> QED BY <3>1, <3>2, Zenon DEF Job
    <2>2. CASE ~e.open /\ j.engine.open
      <3>1. Observed(j, e) =
              [j EXCEPT !.committed = @ + j.current, !.current = 0, !.item = NoItem,
                        !.completed = @ + (e.done - j.engine.done),
                        !.failed    = IF e.bad = "failed" THEN @ + 1 ELSE @,
                        !.cancelled = IF e.bad = "cancelled" THEN @ + 1 ELSE @]
        BY <2>2 DEF Observed
      <3>2. 0 \in Nat /\ NoItem \in Nat \cup {NoItem}
        OBVIOUS
      <3> QED BY <1>2, <3>1, <3>2, ZenonT(40) DEF Job
    <2>3. CASE ~(e.open /\ ~j.engine.open) /\ ~(~e.open /\ j.engine.open)
      BY <2>3 DEF Observed
    <2> QED BY <1>1, <2>1, <2>2, <2>3
  <1> QED BY <1>3, Zenon DEF Job

LEMMA FailedAsType ==
    ASSUME NEW j \in Job, NEW status \in Statuses, NEW m \in Nat \cup {NoManifest}
    PROVE  FailedAs(j, status, m) \in Job /\ FailedAs(j, status, m).thread = "ended"
  BY DEF FailedAs, Job

LEMMA CompletedAsType ==
    ASSUME NEW j \in Job, NEW n \in Nat, NEW b \in Nat
    PROVE  CompletedAs(j, n, b) \in Job /\ CompletedAs(j, n, b).thread = "ended"
  BY DEF CompletedAs, Job, Statuses

LEMMA BegunType ==
    ASSUME NEW j \in Job
    PROVE  /\ [Begun(j) EXCEPT !.thread = "opened"] \in Job
           /\ [Begun(j) EXCEPT !.thread = "opened"].thread = "opened"
  BY DEF Begun, Job, Statuses

-----------------------------------------------------------------------------
(* Type correctness, one lemma per group of actions.                       *)

LEMMA StoreStepType ==
    ASSUME StoreTypeOK, StoreNext
    PROVE  StoreTypeOK'
  <1> USE DEF StoreTypeOK
  <1>1. \A s \in Scans : scans[s] \in Session
    OBVIOUS
  <1>2. NewSession \in Session /\ Evicted \in Session
    BY DEF NewSession, Evicted, Session
  <1>3. \A s \in Scans : [scans[s] EXCEPT !.kept = "kept"] \in Session
    BY <1>1 DEF Session
  <1>4. CASE \E s \in Scans : StoreSession(s)
    <2>1. PICK s \in Scans : StoreSession(s)
      BY <1>4
    <2>2. CASE Len(order) < MaxScans
      <3>1. scans' = [scans EXCEPT ![s] = [scans[s] EXCEPT !.kept = "kept"]]
        BY <2>1, <2>2 DEF StoreSession
      <3>2. scans' \in [Scans -> Session]
        BY <3>1, <1>3
      <3>3. order' = Append(order, s)
        BY <2>1, <2>2 DEF StoreSession
      <3>4. order' \in Seq(Scans) /\ Len(order') = Len(order) + 1
        BY <3>3
      <3> QED BY <2>2, <3>2, <3>4
    <2>3. CASE ~(Len(order) < MaxScans)
      <3>1. order # <<>> /\ Len(order) = MaxScans
        BY <2>3
      <3>2. Head(order) \in Scans /\ Tail(order) \in Seq(Scans)
            /\ Len(Tail(order)) = Len(order) - 1
        BY <3>1
      <3>3. scans' = [[scans EXCEPT ![s] = [scans[s] EXCEPT !.kept = "kept"]]
                        EXCEPT ![Head(order)] = Evicted]
        BY <2>1, <2>3 DEF StoreSession
      <3>4. scans' \in [Scans -> Session]
        BY <3>3, <3>2, <1>2, <1>3
      <3>5. order' = Append(Tail(order), s)
        BY <2>1, <2>3 DEF StoreSession
      <3>6. order' \in Seq(Scans) /\ Len(order') = Len(order)
        BY <3>2, <3>5
      <3> QED BY <3>1, <3>4, <3>6
    <2> QED BY <2>2, <2>3
  <1>5. CASE \E s \in Scans : \E chosen \in SUBSET Candidates :
                ChangeSelection(s, chosen)
    <2>1. PICK s \in Scans, chosen \in SUBSET Candidates : ChangeSelection(s, chosen)
      BY <1>5
    <2>2. scans[s].revision + 1 \in 0 .. MaxRevision
      BY <1>1, <2>1 DEF ChangeSelection, Session
    <2>3. scans' = [scans EXCEPT ![s] = [scans[s] EXCEPT
                       !.selected = chosen, !.revision = scans[s].revision + 1]]
      BY <2>1 DEF ChangeSelection
    <2>4. [scans[s] EXCEPT !.selected = chosen,
                           !.revision = scans[s].revision + 1] \in Session
      BY <1>1, <2>1, <2>2 DEF Session
    <2>5. scans' \in [Scans -> Session]
      BY <2>3, <2>4
    <2> QED BY <2>1, <2>5 DEF ChangeSelection
  <1> QED BY <1>4, <1>5 DEF StoreNext

Snapshots == [scan : Scans, revision : 0 .. MaxRevision,
              selected : SUBSET Candidates]

(* What a command carries from one section to the next.                    *)
LEMMA CallFields ==
    ASSUME CallType, NEW c \in Callers
    PROVE  /\ At(c, "picker") \/ At(c, "admit") => call[c].scan \in Scans
           /\ At(c, "checkPlan") \/ At(c, "insertPlan") =>
                 /\ call[c].destination \in Destinations
                 /\ call[c].snapshot \in Snapshots
           /\ At(c, "commit") \/ At(c, "launch") \/ At(c, "withdraw")
              \/ At(c, "cancel") => call[c].plan \in Plans
  <1>1. call[c] \in Calls
    BY DEF CallType
  <1>2. CASE call[c] = Idle
    BY <1>2 DEF Idle, At
  <1>3. CASE call[c] \in [at : {"picker", "admit"}, scan : Scans]
    BY <1>3 DEF At
  <1>4. CASE call[c] \in [at : {"checkPlan", "insertPlan"},
                          destination : Destinations, snapshot : Snapshots]
    BY <1>4 DEF At
  <1>5. CASE call[c] \in [at : {"commit", "launch", "withdraw", "cancel"},
                          plan : Plans]
    BY <1>5 DEF At
  <1> QED BY <1>1, <1>2, <1>3, <1>4, <1>5, Zenon DEF Calls, Snapshots

LEMMA ReturnType ==
    ASSUME CallType, NEW c \in Callers, Return(c)
    PROVE  CallType'
  BY DEF CallType, Return, Calls

LEMMA ContinueType ==
    ASSUME CallType, NEW c \in Callers, NEW step \in Calls, Continue(c, step)
    PROVE  CallType'
  BY Zenon DEF CallType, Continue

LEMMA PlanStepType ==
    ASSUME NEW p \in Plans,
           NEW at \in {"commit", "launch", "withdraw", "cancel"}
    PROVE  [at |-> at, plan |-> p] \in Calls
  <1>1. [at |-> at, plan |-> p]
           \in [at : {"commit", "launch", "withdraw", "cancel"}, plan : Plans]
    OBVIOUS
  <1> QED BY <1>1, Zenon DEF Calls

LEMMA ScanStepType ==
    ASSUME NEW s \in Scans, NEW at \in {"picker", "admit"}
    PROVE  [at |-> at, scan |-> s] \in Calls
  <1>1. [at |-> at, scan |-> s] \in [at : {"picker", "admit"}, scan : Scans]
    OBVIOUS
  <1> QED BY <1>1, Zenon DEF Calls

LEMMA SnapshotStepType ==
    ASSUME NEW d \in Destinations, NEW snapshot \in Snapshots
    PROVE  [at |-> "checkPlan", destination |-> d, snapshot |-> snapshot] \in Calls
  <1>1. [at |-> "checkPlan", destination |-> d, snapshot |-> snapshot]
           \in [at : {"checkPlan", "insertPlan"}, destination : Destinations,
                snapshot : Snapshots]
    OBVIOUS
  <1> QED BY <1>1, Zenon DEF Calls, Snapshots

PlanningCalls == [at : {"checkPlan", "insertPlan"},
                  destination : Destinations, snapshot : Snapshots]

LEMMA PlanningCallType ==
    ASSUME CallType, NEW c \in Callers, At(c, "checkPlan")
    PROVE  call[c] \in PlanningCalls
  <1>1. call[c] \in Calls /\ call[c].at = "checkPlan"
    BY DEF CallType, At
  <1>2. call[c] # Idle
    BY <1>1 DEF Idle
  <1>3. call[c] \notin [at : {"picker", "admit"}, scan : Scans]
    BY <1>1
  <1>4. call[c] \notin [at : {"commit", "launch", "withdraw", "cancel"},
                        plan : Plans]
    BY <1>1
  <1> QED BY <1>1, <1>2, <1>3, <1>4, Zenon DEF Calls, Snapshots, PlanningCalls

LEMMA InsertStepType ==
    ASSUME CallType, NEW c \in Callers, At(c, "checkPlan")
    PROVE  /\ [call[c] EXCEPT !.at = "insertPlan"] \in Calls
           /\ [call[c] EXCEPT !.at = "insertPlan"].at = "insertPlan"
           /\ [call[c] EXCEPT !.at = "insertPlan"].snapshot = call[c].snapshot
  <1>1. call[c] \in PlanningCalls
    BY PlanningCallType
  <1>2. [call[c] EXCEPT !.at = "insertPlan"] \in PlanningCalls
    BY <1>1 DEF PlanningCalls
  <1>3. [call[c] EXCEPT !.at = "insertPlan"] \in Calls
    BY <1>2, Zenon DEF Calls, Snapshots, PlanningCalls
  <1> QED BY <1>1, <1>3 DEF PlanningCalls

-----------------------------------------------------------------------------
(* The inductive invariant of starts.                                      *)

(* A start that has committed and not returned.                            *)
Starting(c) == At(c, "launch") \/ At(c, "withdraw")

(* Its job waits for it, and for no other.                                 *)
StartsOwnTheirJobs ==
    \A c \in Callers : Starting(c) =>
       /\ jobs[call[c].plan].retained /\ jobs[call[c].plan].thread = "none"
       /\ \A d \in Callers \ {c} : Starting(d) => call[d].plan # call[c].plan

(* A worker that was spawned leaves its mark on the job.                   *)
WorkersLeaveTheirMark ==
    \A p \in Plans : workers[p] # 0 => Launched(p)

(* A cancellation in flight is of a job that will stay.                    *)
CancelsOfLaunched ==
    \A c \in Callers : At(c, "cancel") => Launched(call[c].plan)

StartInv == /\ OneWorkerPerPlan /\ StartedIffJob
            /\ StartsOwnTheirJobs /\ WorkersLeaveTheirMark /\ CancelsOfLaunched

IInv == TypeOK /\ StartInv

(* What a step leaves of the calls: each goes on, or is none of those the  *)
(* invariant speaks of, or begins to cancel p.                             *)
CallsKept(p) ==
    \A c \in Callers :
       \/ call'[c] = call[c]
       \/ call'[c].at \notin {"launch", "withdraw", "cancel"}
       \/ call'[c] = [at |-> "cancel", plan |-> p]

LEMMA CallChanged ==
    ASSUME CallType, NEW c \in Callers, NEW step, Continue(c, step)
    PROVE  /\ call'[c] = step
           /\ \A d \in Callers \ {c} : call'[d] = call[d]
  BY DEF CallType, Continue

LEMMA CallsKeptBy ==
    ASSUME CallType, NEW c \in Callers, NEW p \in Plans, NEW step,
           Continue(c, step),
           \/ step.at \notin {"launch", "withdraw", "cancel"}
           \/ step = [at |-> "cancel", plan |-> p]
    PROVE  CallsKept(p)
  BY CallChanged DEF CallsKept


(* Only a job that is launched changes, and stays launched.                *)
LEMMA LaunchedJobChanges ==
    ASSUME JobsType, StartInv, NEW p \in Plans, NEW j \in Job,
           Launched(p), j.thread # "none", jobs' = [jobs EXCEPT ![p] = j],
           CallsKept(p), UNCHANGED <<plans, workers>>
    PROVE  JobsType' /\ StartInv'
  <1>1. JobsType'
    BY DEF JobsType
  <1>2. j.retained
    BY DEF Job
  <1>3. /\ \A q \in Plans : jobs'[q].retained = jobs[q].retained
        /\ \A q \in Plans : Launched(q) => Launched(q)'
        /\ \A q \in Plans : ~Launched(q) => jobs'[q] = jobs[q]
    BY <1>2 DEF JobsType, Launched
  <1>4. OneWorkerPerPlan' /\ StartedIffJob' /\ WorkersLeaveTheirMark'
    BY <1>3 DEF StartInv, OneWorkerPerPlan, StartedIffJob, WorkersLeaveTheirMark
  <1>5. \A c \in Callers : Starting(c)' => call'[c] = call[c] /\ Starting(c)
    BY DEF CallsKept, Starting, At
  <1>6. StartsOwnTheirJobs'
    BY <1>5 DEF StartInv, StartsOwnTheirJobs, JobsType, Launched
  <1>7. CancelsOfLaunched'
    <2>1. SUFFICES ASSUME NEW c \in Callers, At(c, "cancel")'
                   PROVE  Launched(call[c].plan)'
      BY DEF CancelsOfLaunched
    <2>2. CASE call'[c] = call[c]
      <3>1. Launched(call[c].plan)
        BY <2>1, <2>2 DEF StartInv, CancelsOfLaunched, At
      <3>2. call[c].plan # p => jobs'[call[c].plan] = jobs[call[c].plan]
        BY DEF JobsType
      <3>3. call[c].plan = p => Launched(p)'
        BY <1>3
      <3> QED BY <2>2, <3>1, <3>2, <3>3 DEF Launched
    <2>3. CASE call'[c] = [at |-> "cancel", plan |-> p]
      BY <1>3, <2>3
    <2> QED BY <2>1, <2>2, <2>3 DEF CallsKept, At
  <1> QED BY <1>1, <1>4, <1>6, <1>7 DEF StartInv

(* Nothing changes but a call that neither starts nor cancels, or a plan   *)
(* that is not retained.                                                   *)
LEMMA BystanderCall ==
    ASSUME CallType, StartInv, NEW c \in Callers, NEW step, Continue(c, step),
           step.at \notin {"launch", "withdraw", "cancel"},
           UNCHANGED <<jobs, workers>>,
           \A p \in Plans : (plans[p].retained /\ plans[p].started) =
                               (plans[p].retained /\ plans[p].started)'
    PROVE  StartInv'
  <1>1. call'[c] = step /\ \A d \in Callers \ {c} : call'[d] = call[d]
    BY CallChanged
  <1>2. \A d \in Callers : Starting(d)' => call'[d] = call[d] /\ Starting(d)
    BY <1>1 DEF Starting, At
  <1>3. \A d \in Callers : At(d, "cancel")' => call'[d] = call[d] /\ At(d, "cancel")
    BY <1>1 DEF At
  <1>4. OneWorkerPerPlan' /\ StartedIffJob' /\ WorkersLeaveTheirMark'
    BY DEF StartInv, OneWorkerPerPlan, StartedIffJob, WorkersLeaveTheirMark,
           Launched
  <1>5. StartsOwnTheirJobs'
    BY <1>2 DEF StartInv, StartsOwnTheirJobs
  <1>6. CancelsOfLaunched'
    BY <1>3 DEF StartInv, CancelsOfLaunched, Launched
  <1> QED BY <1>4, <1>5, <1>6 DEF StartInv

LEMMA BystanderReturn ==
    ASSUME CallType, StartInv, NEW c \in Callers, Return(c),
           UNCHANGED <<jobs, workers>>,
           \A p \in Plans : (plans[p].retained /\ plans[p].started) =
                               (plans[p].retained /\ plans[p].started)'
    PROVE  StartInv'
  <1>1. Continue(c, Idle)
    BY DEF Return, Continue
  <1>2. Idle.at \notin {"launch", "withdraw", "cancel"}
    BY DEF Idle
  <1> QED BY <1>1, <1>2, BystanderCall

LEMMA TypeParts ==
    /\ TypeOK <=> /\ StoreTypeOK /\ DestinationsType /\ PlansType /\ JobsType
                  /\ workers \in [Plans -> Nat] /\ CallType
    /\ TypeOK' <=> /\ StoreTypeOK' /\ DestinationsType' /\ PlansType' /\ JobsType'
                   /\ workers' \in [Plans -> Nat] /\ CallType'
  BY DEF TypeOK, DestinationsType, PlansType, JobsType, CallType

LEMMA FreshRetained ==
    ASSUME PlansType, NEW p \in Plans, plans[p].retained
    PROVE  plans[p] \in RetainedPlan
  BY DEF PlansType, NoPlan

LEMMA NewPlanType ==
    ASSUME CallType, NEW c \in Callers, At(c, "insertPlan")
    PROVE  NewPlan(c) \in RetainedPlan
  BY CallFields DEF NewPlan, RetainedPlan, Snapshots

LEMMA QueuedJobType == QueuedJob \in Job
  BY DEF QueuedJob, Job, Statuses, NoReport, EngineReport, NoItem, NoManifest

(* A start commits: it is alone on its plan, which had no job.             *)
LEMMA CommitKeeps ==
    ASSUME TypeOK, StartInv, NEW c \in Callers, CommitStart(c)
    PROVE  TypeOK' /\ StartInv'
  <1> DEFINE p == call[c].plan
             step == [at |-> "launch", plan |-> p]
  <1> USE TypeParts
  <1>1. p \in Plans /\ At(c, "commit")
    BY CallFields DEF CommitStart
  <1>2. CASE Return(c) /\ UNCHANGED <<plans, jobs>>
    <2>1. UNCHANGED <<scans, order, destinations, workers>>
      BY DEF CommitStart, storeVars
    <2>2. CallType'
      BY <1>2, ReturnType
    <2>3. TypeOK'
      BY <1>2, <2>1, <2>2 DEF StoreTypeOK, DestinationsType, PlansType, JobsType
    <2>4. StartInv'
      BY <1>2, <2>1, BystanderReturn
    <2> QED BY <2>3, <2>4
  <1>3. CASE /\ CanStart(p) /\ ~jobs[p].retained
             /\ plans' = [plans EXCEPT ![p].started = TRUE]
             /\ jobs' = [jobs EXCEPT ![p] = QueuedJob]
             /\ Continue(c, step)
    <2>1. UNCHANGED <<scans, order, destinations, workers>>
      BY DEF CommitStart, storeVars
    <2>2. plans[p] \in RetainedPlan
      BY <1>1, <1>3, FreshRetained DEF CanStart
    <2>3. [plans[p] EXCEPT !.started = TRUE] \in RetainedPlan
      BY <2>2 DEF RetainedPlan
    <2>4. PlansType'
      BY <1>1, <1>3, <2>3 DEF PlansType
    <2>5. JobsType'
      BY <1>1, <1>3, QueuedJobType DEF JobsType
    <2>6. CallType'
      BY <1>1, <1>3, PlanStepType, ContinueType
    <2>7. TypeOK'
      BY <2>1, <2>4, <2>5, <2>6 DEF StoreTypeOK, DestinationsType
    <2>8. /\ jobs'[p] = QueuedJob /\ plans'[p].started /\ plans'[p].retained
          /\ \A q \in Plans \ {p} : jobs'[q] = jobs[q] /\ plans'[q] = plans[q]
      BY <1>1, <1>3, <2>2 DEF JobsType, PlansType, RetainedPlan
    <2>9. OneWorkerPerPlan' /\ StartedIffJob'
      BY <2>1, <2>8 DEF StartInv, OneWorkerPerPlan, StartedIffJob, QueuedJob
    <2>10. WorkersLeaveTheirMark'
      BY <1>1, <1>3, <2>1, <2>8 DEF StartInv, WorkersLeaveTheirMark, Launched
    <2>11. call'[c] = step /\ \A d \in Callers \ {c} : call'[d] = call[d]
      BY <1>3, CallChanged
    <2>12. \A d \in Callers \ {c} : Starting(d)' => Starting(d) /\ call[d].plan # p
                                      /\ call[d].plan \in Plans
      BY <1>3, <2>11, CallFields DEF StartInv, StartsOwnTheirJobs, Starting, At
    <2>13. StartsOwnTheirJobs'
      BY <2>8, <2>11, <2>12 DEF StartInv, StartsOwnTheirJobs, QueuedJob
    <2>14. CancelsOfLaunched'
      <3>1. SUFFICES ASSUME NEW d \in Callers, At(d, "cancel")'
                     PROVE  Launched(call[d].plan)'
        BY DEF CancelsOfLaunched
      <3>2. d # c /\ call'[d] = call[d] /\ At(d, "cancel")
        BY <2>11, <3>1 DEF At
      <3>3. Launched(call[d].plan) /\ call[d].plan \in Plans
        BY <3>2, CallFields DEF StartInv, CancelsOfLaunched
      <3>4. call[d].plan # p
        BY <1>3, <3>3 DEF Launched
      <3> QED BY <2>8, <3>2, <3>3, <3>4 DEF Launched
    <2> QED BY <2>7, <2>9, <2>10, <2>13, <2>14 DEF StartInv
  <1> QED BY <1>1, <1>2, <1>3 DEF CommitStart

(* A thread is spawned for the job, or not.                                *)
LEMMA LaunchKeeps ==
    ASSUME TypeOK, StartInv, NEW c \in Callers, Launch(c)
    PROVE  TypeOK' /\ StartInv'
  <1> DEFINE p == call[c].plan
             step == [at |-> "withdraw", plan |-> p]
  <1> USE TypeParts
  <1>1. p \in Plans /\ At(c, "launch") /\ Starting(c)
    BY CallFields DEF Launch, Starting
  <1>2. jobs[p].retained /\ jobs[p].thread = "none" /\ jobs[p] \in Job
    BY <1>1, RetainedJobType DEF StartInv, StartsOwnTheirJobs
  <1>3. workers[p] = 0
    BY <1>1, <1>2 DEF StartInv, WorkersLeaveTheirMark, Launched
  <1>4. UNCHANGED <<scans, order, destinations, plans>>
    BY DEF Launch, storeVars
  <1>5. \A d \in Callers \ {c} : Starting(d) => call[d].plan \in Plans \ {p}
    BY <1>1, CallFields DEF StartInv, StartsOwnTheirJobs, Starting
  <1>6. \A d \in Callers : At(d, "cancel") => call[d].plan \in Plans \ {p}
    BY <1>2, CallFields DEF StartInv, CancelsOfLaunched, Launched
  <1>7. CASE /\ workers' = [workers EXCEPT ![p] = @ + 1]
             /\ jobs' = [jobs EXCEPT ![p].thread = "spawned"]
             /\ Return(c)
    <2>1. [jobs[p] EXCEPT !.thread = "spawned"] \in Job
      BY <1>2 DEF Job
    <2>2. JobsType' /\ workers' \in [Plans -> Nat] /\ CallType'
      BY <1>1, <1>7, <2>1, ReturnType DEF JobsType
    <2>3. TypeOK'
      BY <1>4, <2>2 DEF StoreTypeOK, DestinationsType, PlansType
    <2>4. /\ jobs'[p].retained /\ jobs'[p].thread = "spawned" /\ workers'[p] = 1
          /\ \A q \in Plans \ {p} : jobs'[q] = jobs[q] /\ workers'[q] = workers[q]
      BY <1>1, <1>2, <1>3, <1>7 DEF JobsType, Job
    <2>5. OneWorkerPerPlan' /\ StartedIffJob' /\ WorkersLeaveTheirMark'
      BY <1>2, <1>4, <2>4 DEF StartInv, OneWorkerPerPlan, StartedIffJob,
                         WorkersLeaveTheirMark, Launched
    <2>6. call'[c] = Idle /\ \A d \in Callers \ {c} : call'[d] = call[d]
      BY <1>7 DEF Return, CallType
    <2>7. \A d \in Callers : Starting(d)' => d # c /\ Starting(d)
      BY <2>6 DEF Starting, At, Idle
    <2>8. StartsOwnTheirJobs'
      BY <1>5, <2>4, <2>6, <2>7 DEF StartInv, StartsOwnTheirJobs
    <2>9. \A d \in Callers : At(d, "cancel")' => d # c /\ At(d, "cancel")
      BY <2>6 DEF At, Idle
    <2>10. CancelsOfLaunched'
      BY <1>6, <2>4, <2>6, <2>9 DEF StartInv, CancelsOfLaunched, Launched
    <2> QED BY <2>3, <2>5, <2>8, <2>10 DEF StartInv
  <1>8. CASE /\ jobs' = [jobs EXCEPT ![p].status = "failed"]
             /\ Continue(c, step)
             /\ UNCHANGED workers
    <2>1. [jobs[p] EXCEPT !.status = "failed"] \in Job
      BY <1>2 DEF Job, Statuses
    <2>2. JobsType' /\ CallType'
      BY <1>1, <1>8, <2>1, PlanStepType, ContinueType DEF JobsType
    <2>3. TypeOK'
      BY <1>4, <1>8, <2>2 DEF StoreTypeOK, DestinationsType, PlansType
    <2>4. /\ jobs'[p].retained /\ jobs'[p].thread = "none"
          /\ \A q \in Plans \ {p} : jobs'[q] = jobs[q]
      BY <1>1, <1>2, <1>8 DEF JobsType, Job
    <2>5. OneWorkerPerPlan' /\ StartedIffJob' /\ WorkersLeaveTheirMark'
      BY <1>2, <1>3, <1>4, <1>8, <2>4 DEF StartInv, OneWorkerPerPlan,
                         StartedIffJob, WorkersLeaveTheirMark, Launched
    <2>6. call'[c] = step /\ \A d \in Callers \ {c} : call'[d] = call[d]
      BY <1>8, CallChanged
    <2>7. \A d \in Callers \ {c} : Starting(d)' => Starting(d)
      BY <2>6 DEF Starting, At
    <2>8. StartsOwnTheirJobs'
      BY <1>1, <1>5, <2>4, <2>6, <2>7 DEF StartInv, StartsOwnTheirJobs
    <2>9. \A d \in Callers : At(d, "cancel")' => d # c /\ At(d, "cancel")
      BY <2>6 DEF At
    <2>10. CancelsOfLaunched'
      BY <1>6, <2>4, <2>6, <2>9 DEF StartInv, CancelsOfLaunched, Launched
    <2> QED BY <2>3, <2>5, <2>8, <2>10 DEF StartInv
  <1> QED BY <1>7, <1>8 DEF Launch

(* A start that failed gives the plan back.                                *)
LEMMA WithdrawKeeps ==
    ASSUME TypeOK, StartInv, NEW c \in Callers, Withdraw(c)
    PROVE  TypeOK' /\ StartInv'
  <1> DEFINE p == call[c].plan
  <1> USE TypeParts
  <1>1. p \in Plans /\ At(c, "withdraw") /\ Starting(c)
    BY CallFields DEF Withdraw, Starting
  <1>2. jobs[p].retained /\ jobs[p].thread = "none" /\ plans[p].retained
    BY <1>1 DEF StartInv, StartsOwnTheirJobs, StartedIffJob
  <1>3. workers[p] = 0
    BY <1>1, <1>2 DEF StartInv, WorkersLeaveTheirMark, Launched
  <1>4. /\ UNCHANGED <<scans, order, destinations, workers>> /\ Return(c)
        /\ jobs' = [jobs EXCEPT ![p] = NoJob]
        /\ plans' = [plans EXCEPT ![p].started = FALSE]
    BY DEF Withdraw, storeVars
  <1>5. \A d \in Callers \ {c} : Starting(d) => call[d].plan \in Plans \ {p}
    BY <1>1, CallFields DEF StartInv, StartsOwnTheirJobs, Starting
  <1>6. \A d \in Callers : At(d, "cancel") => call[d].plan \in Plans \ {p}
    BY <1>2, CallFields DEF StartInv, CancelsOfLaunched, Launched
  <1>7. plans[p] \in RetainedPlan
    BY <1>1, <1>2, FreshRetained
  <1>8. [plans[p] EXCEPT !.started = FALSE] \in RetainedPlan
    BY <1>7 DEF RetainedPlan
  <1>9. TypeOK'
    <2>1. PlansType' /\ JobsType' /\ CallType'
      BY <1>1, <1>4, <1>8, ReturnType DEF PlansType, JobsType
    <2> QED BY <1>4, <2>1 DEF StoreTypeOK, DestinationsType
  <1>10. /\ jobs'[p] = NoJob /\ ~plans'[p].started
         /\ \A q \in Plans \ {p} : jobs'[q] = jobs[q] /\ plans'[q] = plans[q]
    BY <1>1, <1>4, <1>7 DEF JobsType, PlansType, RetainedPlan
  <1>11. OneWorkerPerPlan' /\ StartedIffJob' /\ WorkersLeaveTheirMark'
    BY <1>3, <1>4, <1>10 DEF StartInv, OneWorkerPerPlan, StartedIffJob, NoJob,
                             WorkersLeaveTheirMark, Launched
  <1>12. call'[c] = Idle /\ \A d \in Callers \ {c} : call'[d] = call[d]
    BY <1>4 DEF Return, CallType
  <1>13. \A d \in Callers : /\ Starting(d)' => d # c /\ Starting(d)
                            /\ At(d, "cancel")' => d # c /\ At(d, "cancel")
    BY <1>12 DEF Starting, At, Idle
  <1>14. StartsOwnTheirJobs'
    BY <1>5, <1>10, <1>12, <1>13 DEF StartInv, StartsOwnTheirJobs
  <1>15. CancelsOfLaunched'
    BY <1>6, <1>10, <1>12, <1>13 DEF StartInv, CancelsOfLaunched, Launched
  <1> QED BY <1>9, <1>11, <1>14, <1>15 DEF StartInv

(* A launched job is cancelled or written by its worker.                   *)
LEMMA JobStepKeeps ==
    ASSUME TypeOK, StartInv, NEW p \in Plans, NEW j \in Job,
           Launched(p), j.thread # "none", jobs' = [jobs EXCEPT ![p] = j],
           CallsKept(p), CallType', UNCHANGED <<storeVars, destinations, plans, workers>>
    PROVE  TypeOK' /\ StartInv'
  <1> USE TypeParts
  <1>1. JobsType' /\ StartInv'
    BY LaunchedJobChanges
  <1> QED BY <1>1 DEF StoreTypeOK, storeVars, DestinationsType, PlansType

LEMMA CancelKeeps ==
    ASSUME TypeOK, StartInv, NEW c \in Callers,
           MarkCancelling(c) \/ \E p \in Plans : RequestCancel(c, p)
    PROVE  TypeOK' /\ StartInv'
  <1> USE TypeParts
  <1>1. ASSUME NEW p \in Plans, RequestCancel(c, p)
        PROVE  TypeOK' /\ StartInv'
    <2> DEFINE j == [jobs[p] EXCEPT !.asked = TRUE]
               step == [at |-> "cancel", plan |-> p]
    <2>1. Launched(p) /\ jobs[p] \in Job
      BY <1>1, RetainedJobType DEF RequestCancel, Launched
    <2>2. j \in Job /\ j.thread = jobs[p].thread
      BY <2>1 DEF Job
    <2>3. jobs' = [jobs EXCEPT ![p] = j] /\ Continue(c, step)
      BY <1>1 DEF RequestCancel
    <2>4. CallsKept(p) /\ CallType'
      BY <2>3, CallsKeptBy, PlanStepType, ContinueType
    <2>5. j.thread # "none"
      BY <2>1, <2>2 DEF Launched
    <2>6. UNCHANGED <<storeVars, destinations, plans, workers>>
      BY <1>1 DEF RequestCancel
    <2> HIDE DEF j, step
    <2> QED BY <2>1, <2>2, <2>3, <2>4, <2>5, <2>6, JobStepKeeps
  <1>2. ASSUME MarkCancelling(c)
        PROVE  TypeOK' /\ StartInv'
    <2> DEFINE p == call[c].plan
               j == [jobs[p] EXCEPT !.status = CancelledStatus(jobs[p].status)]
    <2>1. p \in Plans /\ At(c, "cancel")
      BY <1>2, CallFields DEF MarkCancelling
    <2>2. Launched(p) /\ jobs[p] \in Job
      BY <2>1, RetainedJobType DEF StartInv, CancelsOfLaunched, Launched
    <2>3. CancelledStatus(jobs[p].status) \in Statuses
      BY <2>2 DEF CancelledStatus, Job, Statuses
    <2>4. j \in Job /\ j.thread = jobs[p].thread
      BY <2>2, <2>3 DEF Job
    <2>5. jobs' = [jobs EXCEPT ![p] = j] /\ Return(c)
      BY <1>2 DEF MarkCancelling
    <2>6. Continue(c, Idle) /\ Idle.at \notin {"launch", "withdraw", "cancel"}
      BY <2>5 DEF Return, Continue, Idle
    <2>7. CallsKept(p) /\ CallType'
      BY <2>1, <2>5, <2>6, CallsKeptBy, ReturnType
    <2>8. j.thread # "none"
      BY <2>2, <2>4 DEF Launched
    <2>9. UNCHANGED <<storeVars, destinations, plans, workers>>
      BY <1>2 DEF MarkCancelling
    <2> HIDE DEF j, p
    <2> QED BY <2>1, <2>2, <2>4, <2>5, <2>7, <2>8, <2>9, JobStepKeeps
  <1> QED BY <1>1, <1>2

LEMMA WorkerKeeps ==
    ASSUME TypeOK, StartInv, NEW p \in Plans, Worker(p)
    PROVE  TypeOK' /\ StartInv'
  <1> USE TypeParts
  <1>1. ASSUME NEW thread \in {"spawned", "opened"}, NEW j \in Job,
               j.thread # "none", WorkerStep(p, thread, j)
        PROVE  TypeOK' /\ StartInv'
    <2>1. /\ Launched(p) /\ jobs' = [jobs EXCEPT ![p] = j]
          /\ UNCHANGED <<storeVars, destinations, plans, workers>>
      BY <1>1 DEF WorkerStep, Launched
    <2>2. CallsKept(p) /\ CallType'
      BY <1>1 DEF WorkerStep, CallsKept, CallType
    <2> QED BY <1>1, <2>1, <2>2, JobStepKeeps
  <1>2. jobs[p].retained => jobs[p] \in Job
    BY RetainedJobType
  <1>3. CASE BeginWorker(p)
    <2>1. jobs[p] \in Job /\ WorkerStep(p, "spawned",
                                [Begun(jobs[p]) EXCEPT !.thread = "opened"])
      BY <1>2, <1>3 DEF BeginWorker, WorkerStep
    <2> QED BY <1>1, <2>1, BegunType
  <1>4. CASE OpenSourceFails(p)
    <2>1. jobs[p] \in Job /\ WorkerStep(p, "opened", OpenFailed(jobs[p]))
      BY <1>2, <1>4 DEF OpenSourceFails
    <2>2. OpenFailed(jobs[p]) \in Job /\ OpenFailed(jobs[p]).thread = "ended"
      BY <2>1, FailedAsType DEF OpenFailed, Statuses
    <2> QED BY <1>1, <2>1, <2>2
  <1>5. CASE EngineReportsTo(p)
    <2> DEFINE j(e) == [Observed(jobs[p], e) EXCEPT !.engine = e]
    <2>1. jobs[p] \in Job
      BY <1>2, <1>5 DEF EngineReportsTo
    <2>2. PICK e \in EngineStep(jobs[p].engine, ItemsTotal(p), jobs[p].asked) :
             WorkerStep(p, "opened", j(e))
      BY <1>5 DEF EngineReportsTo
    <2>3. jobs[p].engine \in EngineReport /\ jobs[p].asked \in BOOLEAN
      BY <2>1, Zenon DEF Job
    <2>4. plans[p].retained
      BY <1>5 DEF EngineReportsTo, StartInv, StartedIffJob
    <2>5. ItemsTotal(p) \in Nat
      BY <2>4, ItemsTotalType
    <2>6. e \in EngineReport /\ e.done >= jobs[p].engine.done
      BY <2>2, <2>3, <2>5, EngineStepType
    <2>7. j(e) \in Job /\ j(e).thread = jobs[p].thread
      BY <2>1, <2>6, ObservedType
    <2>8. jobs[p].thread = "opened"
      BY <2>2 DEF WorkerStep
    <2> HIDE DEF j
    <2> QED BY <1>1, <2>2, <2>7, <2>8
  <1>6. CASE Stream(p)
    <2> DEFINE j == [jobs[p] EXCEPT !.current = @ + 1]
    <2>1. jobs[p] \in Job
      BY <1>2, <1>6 DEF Stream
    <2>2. WorkerStep(p, "opened", j)
      BY <1>6 DEF Stream
    <2>3. jobs[p].current \in Nat
      BY <2>1, Zenon DEF Job
    <2>4. jobs[p].current + 1 \in Nat
      BY <2>3
    <2>5. j \in Job /\ j.thread = jobs[p].thread
      BY <2>1, <2>4, Zenon DEF Job
    <2>6. jobs[p].thread = "opened"
      BY <2>2 DEF WorkerStep
    <2> HIDE DEF j
    <2> QED BY <1>1, <2>2, <2>5, <2>6
  <1>7. CASE EndWorker(p)
    <2>1. jobs[p] \in Job /\ plans[p].retained
      BY <1>2, <1>7 DEF EndWorker, StartInv, StartedIffJob
    <2>2. PendingManifest(jobs[p]) \in Nat \cup {NoManifest}
      BY <2>1 DEF PendingManifest, Job, EngineReport
    <2>3. PICK j \in {CompletedAs(jobs[p], ItemsTotal(p), BytesTotal(p)),
                      FailedAs(jobs[p], "cancelled", PendingManifest(jobs[p])),
                      FailedAs(jobs[p], "failed", PendingManifest(jobs[p]))} :
             WorkerStep(p, "opened", j)
      BY <1>7, Zenon DEF EndWorker
    <2>4. /\ CompletedAs(jobs[p], ItemsTotal(p), BytesTotal(p)) \in Job
          /\ CompletedAs(jobs[p], ItemsTotal(p), BytesTotal(p)).thread = "ended"
      BY <2>1, ItemsTotalType, CompletedAsType
    <2>5. ASSUME NEW status \in {"cancelled", "failed"}
          PROVE  /\ FailedAs(jobs[p], status, PendingManifest(jobs[p])) \in Job
                 /\ FailedAs(jobs[p], status,
                             PendingManifest(jobs[p])).thread = "ended"
      <3>1. status \in Statuses
        BY DEF Statuses
      <3> QED BY <2>1, <2>2, <3>1, FailedAsType
    <2>6. j \in Job /\ j.thread = "ended"
      BY <2>3, <2>4, <2>5
    <2> QED BY <1>1, <2>3, <2>6
  <1> QED BY <1>3, <1>4, <1>5, <1>6, <1>7 DEF Worker

(* Every other section of a command leaves starts alone.                   *)
LEMMA BystanderKeeps ==
    ASSUME TypeOK, StartInv, NEW c \in Callers,
           \/ \E s \in Scans : OpenPicker(c, s)
           \/ ClosePicker(c) \/ AdmitDestination(c)
           \/ \E s \in Scans, d \in Destinations : SnapshotSelection(c, s, d)
           \/ CheckPlan(c) \/ InsertPlan(c)
           \/ \E p \in Plans : Preflight(c, p)
    PROVE  TypeOK' /\ StartInv'
  <1> USE TypeParts
  <1> DEFINE Bystanding == {"picker", "admit", "checkPlan", "insertPlan", "commit"}
  <1>1. ASSUME UNCHANGED <<storeVars, destinations, plans, jobs, workers>>,
               \/ Return(c)
               \/ \E step \in Calls : step.at \in Bystanding /\ Continue(c, step)
        PROVE  TypeOK' /\ StartInv'
    <2>1. CallType'
      BY <1>1, ReturnType, ContinueType
    <2>2. TypeOK'
      BY <1>1, <2>1 DEF StoreTypeOK, storeVars, DestinationsType, PlansType, JobsType
    <2>3. StartInv'
      BY <1>1, BystanderReturn, BystanderCall
    <2> QED BY <2>2, <2>3
  <1>2. CASE \E s \in Scans : OpenPicker(c, s)
    <2>1. PICK s \in Scans : OpenPicker(c, s)
      BY <1>2
    <2>2. [at |-> "picker", scan |-> s] \in Calls
      BY ScanStepType
    <2> QED BY <1>1, <2>1, <2>2 DEF OpenPicker
  <1>3. CASE ClosePicker(c)
    <2>1. call[c].scan \in Scans
      BY <1>3, CallFields DEF ClosePicker
    <2>2. [at |-> "admit", scan |-> call[c].scan] \in Calls
      BY <2>1, ScanStepType
    <2> QED BY <1>1, <1>3, <2>2 DEF ClosePicker
  <1>4. CASE AdmitDestination(c)
    <2>1. call[c].scan \in Scans /\ Return(c)
      BY <1>4, CallFields DEF AdmitDestination
    <2>2. DestinationsType'
      BY <1>4, <2>1 DEF AdmitDestination, DestinationsType
    <2>3. TypeOK'
      BY <1>4, <2>1, <2>2, ReturnType
         DEF AdmitDestination, StoreTypeOK, storeVars, PlansType, JobsType
    <2>4. StartInv'
      BY <1>4, <2>1, BystanderReturn DEF AdmitDestination
    <2> QED BY <2>3, <2>4
  <1>5. CASE \E s \in Scans, d \in Destinations : SnapshotSelection(c, s, d)
    <2>1. PICK s \in Scans, d \in Destinations : SnapshotSelection(c, s, d)
      BY <1>5
    <2> DEFINE snapshot == [scan |-> s, revision |-> scans[s].revision,
                            selected |-> scans[s].selected]
               step == [at |-> "checkPlan", destination |-> d, snapshot |-> snapshot]
    <2>2. snapshot \in Snapshots
      BY DEF StoreTypeOK, Session, Snapshots
    <2>3. step \in Calls /\ step.at \in Bystanding
      BY <2>2, SnapshotStepType
    <2> QED BY <1>1, <2>1, <2>3 DEF SnapshotSelection
  <1>6. CASE CheckPlan(c)
    <2>1. /\ [call[c] EXCEPT !.at = "insertPlan"] \in Calls
          /\ [call[c] EXCEPT !.at = "insertPlan"].at = "insertPlan"
      BY <1>6, InsertStepType DEF CheckPlan
    <2> QED BY <1>1, <1>6, <2>1 DEF CheckPlan
  <1>7. CASE InsertPlan(c)
    <2>1. Return(c) /\ NewPlan(c) \in RetainedPlan
      BY <1>7, NewPlanType DEF InsertPlan
    <2>2. /\ PlansType'
          /\ \A p \in Plans : (plans[p].retained /\ plans[p].started) =
                              (plans[p].retained /\ plans[p].started)'
      <3>1. CASE UNCHANGED plans
        BY <3>1 DEF PlansType
      <3>2. CASE \E p \in Plans \ RetainedPlans :
                    plans' = [plans EXCEPT ![p] = NewPlan(c)]
        <4>1. PICK p \in Plans \ RetainedPlans :
                      plans' = [plans EXCEPT ![p] = NewPlan(c)]
          BY <3>2
        <4>2. PlansType'
          BY <2>1, <4>1 DEF PlansType
        <4>3. ~plans[p].retained /\ ~plans'[p].started
          BY <4>1 DEF RetainedPlans, NewPlan, PlansType
        <4>4. \A q \in Plans \ {p} : plans'[q] = plans[q]
          BY <4>1 DEF PlansType
        <4> QED BY <4>2, <4>3, <4>4
      <3> QED BY <1>7, <3>1, <3>2 DEF InsertPlan
    <2>3. TypeOK'
      BY <1>7, <2>1, <2>2, ReturnType
         DEF InsertPlan, StoreTypeOK, storeVars, DestinationsType, JobsType
    <2>4. StartInv'
      BY <1>7, <2>1, <2>2, BystanderReturn DEF InsertPlan
    <2> QED BY <2>3, <2>4
  <1>8. CASE \E p \in Plans : Preflight(c, p)
    <2>1. PICK p \in Plans : Preflight(c, p)
      BY <1>8
    <2>2. [at |-> "commit", plan |-> p] \in Calls
      BY PlanStepType
    <2> QED BY <1>1, <2>1, <2>2 DEF Preflight
  <1> QED BY <1>2, <1>3, <1>4, <1>5, <1>6, <1>7, <1>8

-----------------------------------------------------------------------------

LEMMA StartInvariantInit == Init => IInv
  <1> SUFFICES ASSUME Init PROVE IInv
    OBVIOUS
  <1>1. StoreTypeOK
    BY DEF Init, StoreInit, StoreTypeOK, NewSession, Session
  <1>2. \A c \in Callers : call[c] = Idle /\ Idle \in Calls
    BY DEF Init, Calls
  <1>3. TypeOK
    BY <1>1, <1>2 DEF Init, TypeOK
  <1>4. StartInv
    BY <1>2 DEF Init, StartInv, OneWorkerPerPlan, StartedIffJob, NoPlan, NoJob,
                StartsOwnTheirJobs, WorkersLeaveTheirMark, CancelsOfLaunched,
                Starting, At, Idle
  <1> QED BY <1>3, <1>4 DEF IInv

LEMMA StartInvariantStep == IInv /\ [Next]_vars => IInv'
  <1> SUFFICES ASSUME TypeOK, StartInv, [Next]_vars PROVE TypeOK' /\ StartInv'
    BY DEF IInv
  <1> USE TypeParts
  <1>1. CASE StoreStep
    <2>1. StoreTypeOK' /\ UNCHANGED <<destinations, plans, jobs, workers, call>>
      BY <1>1, StoreStepType DEF StoreStep
    <2>2. TypeOK'
      BY <2>1 DEF DestinationsType, PlansType, JobsType, CallType
    <2>3. StartInv'
      BY <2>1 DEF StartInv, OneWorkerPerPlan, StartedIffJob, StartsOwnTheirJobs,
           WorkersLeaveTheirMark, CancelsOfLaunched, Launched, Starting, At
    <2> QED BY <2>2, <2>3
  <1>2. CASE \E c \in Callers : Command(c)
    BY <1>2, BystanderKeeps, CommitKeeps, LaunchKeeps, WithdrawKeeps, CancelKeeps
       DEF Command, CommandSection
  <1>3. CASE \E p \in Plans : Worker(p)
    BY <1>3, WorkerKeeps
  <1>4. CASE UNCHANGED vars
    <2>1. UNCHANGED <<scans, order, destinations, plans, jobs, workers, call>>
      BY <1>4 DEF vars, storeVars
    <2>2. TypeOK'
      BY <2>1 DEF StoreTypeOK, DestinationsType, PlansType, JobsType, CallType
    <2>3. StartInv'
      BY <2>1 DEF StartInv, OneWorkerPerPlan, StartedIffJob, StartsOwnTheirJobs,
           WorkersLeaveTheirMark, CancelsOfLaunched, Launched, Starting, At
    <2> QED BY <2>2, <2>3
  <1> QED BY <1>1, <1>2, <1>3, <1>4 DEF Next

LEMMA StartInvariant == Spec => []IInv
  BY StartInvariantInit, StartInvariantStep, PTL DEF Spec

(* Every variable of the coordinator keeps its type, restore.rs.           *)
THEOREM CoordinatorTypes == Spec => []TypeOK
  BY StartInvariant, PTL DEF IInv

(* However many starts of one plan are in flight, however often a thread   *)
(* cannot be spawned and whatever the limits are, at most one worker ever  *)
(* runs the plan; a plan is consumed exactly while its job is retained, so *)
(* no start is lost and none is left half done                             *)
(* (commit_prepared_restore_start_fields, launch_restore).                 *)
THEOREM PlansRunAtMostOnce == Spec => []PlansRunOnce
  BY StartInvariant, PTL DEF IInv, StartInv, PlansRunOnce

-----------------------------------------------------------------------------
(* The selection a start runs on.                                          *)

(* Revision r of the session was, at some time, the selection chosen; a    *)
(* later change of the selection has a greater revision.                   *)
Named(s, r, chosen) ==
    /\ scans[s].kept # "new"
    /\ Kept(s) => /\ r <= scans[s].revision
                  /\ r = scans[s].revision => scans[s].selected = chosen

PlansNamed ==
    \A p \in Plans : plans[p].retained =>
       Named(plans[p].scan, plans[p].revision, plans[p].selected)

CallsNamed ==
    \A c \in Callers : At(c, "checkPlan") \/ At(c, "insertPlan") =>
       LET snapshot == call[c].snapshot
       IN  Named(snapshot.scan, snapshot.revision, snapshot.selected)

NameInv == PlansNamed /\ CallsNamed

LEMMA NamesStay ==
    ASSUME StoreTypeOK, StoreNext, NEW s \in Scans, NEW r \in 0 .. MaxRevision,
           NEW chosen, Named(s, r, chosen)
    PROVE  Named(s, r, chosen)'
  <1>1. \A t \in Scans : scans[t].revision \in Nat
    BY DEF StoreTypeOK, Session
  <1>2. CASE \E t \in Scans : StoreSession(t)
    <2>1. PICK t \in Scans : StoreSession(t)
      BY <1>2
    <2>2. t # s
      BY <2>1 DEF StoreSession, Named
    <2>3. scans'[s] = scans[s] \/ scans'[s] = Evicted
      BY <2>1, <2>2 DEF StoreSession, StoreTypeOK
    <2> QED BY <2>3 DEF Named, Kept, Evicted, NewSession
  <1>3. CASE \E t \in Scans : \E other \in SUBSET Candidates :
                ChangeSelection(t, other)
    <2>1. PICK t \in Scans, other \in SUBSET Candidates : ChangeSelection(t, other)
      BY <1>3
    <2>2. CASE t # s
      BY <2>1, <2>2 DEF ChangeSelection, StoreTypeOK, Named, Kept
    <2>3. CASE t = s
      <3>1. scans[s] \in Session
        BY DEF StoreTypeOK
      <3>2. scans'[s] = [scans[s] EXCEPT !.selected = other,
                                         !.revision = scans[s].revision + 1]
        BY <2>1, <2>3 DEF ChangeSelection, StoreTypeOK
      <3>3. scans'[s].kept = "kept" /\ scans'[s].revision = scans[s].revision + 1
        BY <2>1, <2>3, <3>1, <3>2 DEF ChangeSelection, Kept, Session
      <3>4. r <= scans[s].revision
        BY <2>1, <2>3 DEF ChangeSelection, Named
      <3>5. r < scans'[s].revision
        BY <1>1, <3>3, <3>4
      <3>6. r <= scans'[s].revision /\ r # scans'[s].revision
        BY <1>1, <3>3, <3>5
      <3> QED BY <3>3, <3>6 DEF Named, Kept
    <2> QED BY <2>2, <2>3
  <1> QED BY <1>2, <1>3 DEF StoreNext

(* A call that does not take a snapshot, and plans that stay as they were  *)
(* but for being started.                                                  *)
LEMMA NamesKept ==
    ASSUME NameInv, UNCHANGED scans,
           \A p \in Plans : plans'[p].retained =>
              \/ /\ plans[p].retained /\ plans'[p].scan = plans[p].scan
                 /\ plans'[p].revision = plans[p].revision
                 /\ plans'[p].selected = plans[p].selected
              \/ Named(plans'[p].scan, plans'[p].revision, plans'[p].selected),
           \A c \in Callers :
              At(c, "checkPlan")' \/ At(c, "insertPlan")' =>
                 \/ /\ At(c, "checkPlan") \/ At(c, "insertPlan")
                    /\ call'[c].snapshot = call[c].snapshot
                 \/ LET snapshot == call'[c].snapshot
                    IN  Named(snapshot.scan, snapshot.revision, snapshot.selected)
    PROVE  NameInv'
  <1>1. \A s, r, chosen : Named(s, r, chosen) => Named(s, r, chosen)'
    BY DEF Named, Kept
  <1>2. PlansNamed'
    BY <1>1 DEF NameInv, PlansNamed
  <1>3. CallsNamed'
    BY <1>1 DEF NameInv, CallsNamed
  <1> QED BY <1>2, <1>3 DEF NameInv

LEMMA NameInvStep == IInv /\ NameInv /\ [Next]_vars => NameInv'
  <1> SUFFICES ASSUME TypeOK, StartInv, NameInv, [Next]_vars PROVE NameInv'
    BY DEF IInv
  <1> USE TypeParts
  <1> DEFINE Planning(c) == At(c, "checkPlan") \/ At(c, "insertPlan")
  <1>1. CASE StoreStep
    <2>1. UNCHANGED <<plans, call>> /\ StoreNext
      BY <1>1 DEF StoreStep
    <2>2. \A p \in Plans : plans[p].retained => plans[p] \in RetainedPlan
      BY FreshRetained
    <2>3. PlansNamed'
      BY <2>1, <2>2, NamesStay DEF NameInv, PlansNamed, RetainedPlan
    <2>4. ASSUME NEW c \in Callers, Planning(c)
          PROVE  LET snapshot == call[c].snapshot
                 IN  Named(snapshot.scan, snapshot.revision, snapshot.selected)'
      <3>1. call[c].snapshot \in Snapshots
        BY <2>4, CallFields
      <3>2. Named(call[c].snapshot.scan, call[c].snapshot.revision,
                  call[c].snapshot.selected)
        BY <2>4 DEF NameInv, CallsNamed
      <3>3. /\ call[c].snapshot.scan \in Scans
            /\ call[c].snapshot.revision \in 0 .. MaxRevision
        BY <3>1 DEF Snapshots
      <3> QED BY <2>1, <3>2, <3>3, NamesStay
    <2>5. CallsNamed'
      BY <2>1, <2>4 DEF CallsNamed, At
    <2> QED BY <2>3, <2>5 DEF NameInv
  <1>2. ASSUME NEW c \in Callers, Command(c)
        PROVE  NameInv'
    <2>1. UNCHANGED scans
      BY <1>2 DEF Command, CommandSection, OpenPicker, ClosePicker,
           AdmitDestination, SnapshotSelection, CheckPlan, InsertPlan, Preflight,
           CommitStart, Launch, Withdraw, RequestCancel, MarkCancelling, storeVars
    <2>2. ASSUME \/ Return(c)
                 \/ \E step : /\ step.at \notin {"checkPlan", "insertPlan"}
                              /\ Continue(c, step)
          PROVE  \A d \in Callers :
                    Planning(d)' => Planning(d) /\ call'[d] = call[d]
      <3>1. Idle.at \notin {"checkPlan", "insertPlan"}
        BY DEF Idle
      <3>2. \E step : step.at \notin {"checkPlan", "insertPlan"} /\ Continue(c, step)
        BY <2>2, <3>1 DEF Return, Continue
      <3> QED BY <3>2, CallChanged DEF At
    <2>3. CASE \/ \E s \in Scans : OpenPicker(c, s)
               \/ ClosePicker(c) \/ AdmitDestination(c)
               \/ \E p \in Plans : Preflight(c, p) \/ RequestCancel(c, p)
               \/ Launch(c) \/ MarkCancelling(c)
      <3>1. UNCHANGED plans
        BY <2>3 DEF OpenPicker, ClosePicker, AdmitDestination, Preflight,
                    RequestCancel, Launch, MarkCancelling
      <3>2. \/ Return(c)
            \/ \E step : /\ step.at \notin {"checkPlan", "insertPlan"}
                         /\ Continue(c, step)
        BY <2>3 DEF OpenPicker, ClosePicker, AdmitDestination, Preflight,
                    RequestCancel, Launch, MarkCancelling
      <3>3. \A d \in Callers : Planning(d)' => Planning(d) /\ call'[d] = call[d]
        BY <2>2, <3>2
      <3> QED BY <2>1, <3>1, <3>3, NamesKept
    <2>4. CASE CommitStart(c) \/ Withdraw(c)
      <3>1. \/ Return(c)
            \/ \E step : /\ step.at \notin {"checkPlan", "insertPlan"}
                         /\ Continue(c, step)
        BY <2>4 DEF CommitStart, Withdraw
      <3>2. \A d \in Callers : Planning(d)' => Planning(d) /\ call'[d] = call[d]
        BY <2>2, <3>1
      <3>3. \/ plans' = plans
            \/ \E p \in Plans, b \in BOOLEAN :
                  plans[p].retained /\ plans' = [plans EXCEPT ![p].started = b]
        <4>1. call[c].plan \in Plans
          BY <2>4, CallFields DEF CommitStart, Withdraw
        <4>2. CASE CommitStart(c)
          BY <4>1, <4>2 DEF CommitStart, CanStart
        <4>3. CASE Withdraw(c)
          <5>1. plans[call[c].plan].retained
            BY <4>1, <4>3 DEF Withdraw, StartInv, StartsOwnTheirJobs, StartedIffJob,
                              Starting
          <5> QED BY <4>1, <4>3, <5>1 DEF Withdraw
        <4> QED BY <2>4, <4>2, <4>3
      <3>4. ASSUME NEW q \in Plans, plans'[q].retained
            PROVE  /\ plans[q].retained /\ plans'[q].scan = plans[q].scan
                   /\ plans'[q].revision = plans[q].revision
                   /\ plans'[q].selected = plans[q].selected
        <4>1. CASE plans' = plans
          BY <3>4, <4>1
        <4>2. CASE \E p \in Plans, b \in BOOLEAN :
                     plans[p].retained /\ plans' = [plans EXCEPT ![p].started = b]
          <5>1. PICK p \in Plans, b \in BOOLEAN :
                   plans[p].retained /\ plans' = [plans EXCEPT ![p].started = b]
            BY <4>2
          <5>2. CASE q # p
            BY <3>4, <5>1, <5>2 DEF PlansType
          <5>3. CASE q = p
            <6>1. plans[p] \in RetainedPlan
              BY <5>1, FreshRetained
            <6>2. plans'[p] = [plans[p] EXCEPT !.started = b]
              BY <5>1 DEF PlansType
            <6> QED BY <5>1, <5>3, <6>1, <6>2 DEF RetainedPlan
          <5> QED BY <5>2, <5>3
        <4> QED BY <3>3, <4>1, <4>2
      <3> QED BY <2>1, <3>2, <3>4, NamesKept
    <2>5. CASE \E s \in Scans, d \in Destinations : SnapshotSelection(c, s, d)
      <3>1. PICK s \in Scans, d \in Destinations : SnapshotSelection(c, s, d)
        BY <2>5
      <3> DEFINE snapshot == [scan |-> s, revision |-> scans[s].revision,
                              selected |-> scans[s].selected]
                 step == [at |-> "checkPlan", destination |-> d,
                          snapshot |-> snapshot]
      <3>2. /\ UNCHANGED plans /\ Kept(s)
            /\ call'[c] = step /\ \A e \in Callers \ {c} : call'[e] = call[e]
        BY <3>1, CallChanged DEF SnapshotSelection
      <3>3. Named(s, scans[s].revision, scans[s].selected)
        BY <3>2 DEF Named, Kept, StoreTypeOK, Session
      <3>4. \A e \in Callers : Planning(e)' =>
               \/ Planning(e) /\ call'[e].snapshot = call[e].snapshot
               \/ LET shot == call'[e].snapshot
                  IN  Named(shot.scan, shot.revision, shot.selected)
        BY <3>2, <3>3 DEF At
      <3> QED BY <2>1, <3>2, <3>4, NamesKept
    <2>6. CASE CheckPlan(c)
      <3>1. UNCHANGED plans /\ At(c, "checkPlan")
        BY <2>6 DEF CheckPlan
      <3>2. \A e \in Callers : Planning(e)' =>
               Planning(e) /\ call'[e].snapshot = call[e].snapshot
        <4>1. CASE Return(c)
          BY <2>2, <4>1
        <4>2. CASE Continue(c, [call[c] EXCEPT !.at = "insertPlan"])
          <5>1. /\ call'[c] = [call[c] EXCEPT !.at = "insertPlan"]
                /\ \A e \in Callers \ {c} : call'[e] = call[e]
            BY <4>2, CallChanged
          <5>2. call'[c].snapshot = call[c].snapshot
            BY <3>1, <5>1, InsertStepType
          <5> QED BY <3>1, <5>1, <5>2 DEF At
        <4> QED BY <2>6, <4>1, <4>2 DEF CheckPlan
      <3> QED BY <2>1, <3>1, <3>2, NamesKept
    <2>7. CASE InsertPlan(c)
      <3>1. Return(c) /\ At(c, "insertPlan")
        BY <2>7 DEF InsertPlan
      <3>2. \A d \in Callers : Planning(d)' => Planning(d) /\ call'[d] = call[d]
        BY <2>2, <3>1
      <3>3. Named(NewPlan(c).scan, NewPlan(c).revision, NewPlan(c).selected)
        BY <3>1 DEF NewPlan, NameInv, CallsNamed
      <3>4. \/ plans' = plans
            \/ \E p \in Plans : plans' = [plans EXCEPT ![p] = NewPlan(c)]
        BY <2>7 DEF InsertPlan
      <3>5. \A q \in Plans : plans'[q] = plans[q] \/ plans'[q] = NewPlan(c)
        BY <3>4 DEF PlansType
      <3> QED BY <2>1, <3>2, <3>3, <3>5, NamesKept
    <2> QED BY <1>2, <2>3, <2>4, <2>5, <2>6, <2>7 DEF Command, CommandSection
  <1>3. CASE UNCHANGED <<scans, plans, call>>
    BY <1>3, NamesKept DEF At
  <1>4. CASE \E p \in Plans : Worker(p)
    <2>1. UNCHANGED <<scans, plans, call>>
      BY <1>4 DEF Worker, BeginWorker, OpenSourceFails, EngineReportsTo, Stream,
                  EndWorker, WorkerStep, storeVars
    <2> QED BY <1>3, <2>1
  <1>5. CASE UNCHANGED vars
    BY <1>3, <1>5 DEF vars, storeVars
  <1> QED BY <1>1, <1>2, <1>4, <1>5 DEF Next

(* A step that changes the jobs commits a start or writes to a job that is *)
(* retained.                                                               *)
LEMMA JobChanges ==
    ASSUME TypeOK, StartInv, [Next]_vars
    PROVE  \/ UNCHANGED jobs
           \/ \E c \in Callers : CommitStart(c)
           \/ \E q \in RetainedJobs : \E j : jobs' = [jobs EXCEPT ![q] = j]
  <1> USE TypeParts
  <1>1. ASSUME NEW c \in Callers, Launch(c) \/ Withdraw(c)
        PROVE  \E q \in RetainedJobs : \E j : jobs' = [jobs EXCEPT ![q] = j]
    <2>1. call[c].plan \in RetainedJobs
      BY <1>1, CallFields DEF Launch, Withdraw, StartInv, StartsOwnTheirJobs,
                              Starting, RetainedJobs
    <2>2. \E j : jobs' = [jobs EXCEPT ![call[c].plan] = j]
      BY <1>1 DEF Launch, Withdraw
    <2> QED BY <2>1, <2>2
  <1>2. ASSUME NEW c \in Callers, MarkCancelling(c)
        PROVE  \E q \in RetainedJobs : \E j : jobs' = [jobs EXCEPT ![q] = j]
    <2>1. call[c].plan \in RetainedJobs
      BY <1>2, CallFields DEF MarkCancelling, StartInv, CancelsOfLaunched,
                              Launched, RetainedJobs
    <2>2. \E j : jobs' = [jobs EXCEPT ![call[c].plan] = j]
      BY <1>2 DEF MarkCancelling
    <2> QED BY <2>1, <2>2
  <1>3. ASSUME NEW c \in Callers, NEW q \in Plans, RequestCancel(c, q)
        PROVE  q \in RetainedJobs /\ \E j : jobs' = [jobs EXCEPT ![q] = j]
    BY <1>3 DEF RequestCancel, RetainedJobs
  <1>4. ASSUME NEW q \in Plans, Worker(q)
        PROVE  q \in RetainedJobs /\ \E j : jobs' = [jobs EXCEPT ![q] = j]
    BY <1>4 DEF Worker, BeginWorker, OpenSourceFails, EngineReportsTo, Stream,
                EndWorker, WorkerStep, RetainedJobs
  <1>5. ASSUME NEW c \in Callers, Command(c)
        PROVE  \/ CommitStart(c) \/ Launch(c) \/ Withdraw(c) \/ MarkCancelling(c)
               \/ \E q \in Plans : RequestCancel(c, q)
               \/ UNCHANGED jobs
    BY <1>5 DEF Command, CommandSection, OpenPicker, ClosePicker,
         AdmitDestination, SnapshotSelection, CheckPlan, InsertPlan, Preflight
  <1>6. StoreStep \/ UNCHANGED vars => UNCHANGED jobs
    BY DEF StoreStep, vars
  <1> QED BY <1>1, <1>2, <1>3, <1>4, <1>5, <1>6 DEF Next

LEMMA NameInvInit == Init => NameInv
  BY DEF Init, NameInv, PlansNamed, CallsNamed, NoPlan, At, Idle

LEMMA NameInvariant == Spec => [](IInv /\ NameInv)
  <1>1. Init => IInv /\ NameInv
    BY StartInvariantInit, NameInvInit
  <1>2. IInv /\ NameInv /\ [Next]_vars => (IInv /\ NameInv)'
    BY StartInvariantStep, NameInvStep
  <1> QED BY <1>1, <1>2, PTL DEF Spec

(* The revision is as good as the selection: a plan whose revision is the  *)
(* session's was made from the session's present selection, so that        *)
(* create_restore_plan and start_restore may compare revisions.            *)
THEOREM RevisionsNameSelections == Spec => []RevisionNamesSelection
  <1>1. IInv /\ NameInv => RevisionNamesSelection
    BY DEF NameInv, PlansNamed, Named, RevisionNamesSelection, RetainedPlans
  <1> QED BY <1>1, NameInvariant, PTL

(* A job appears only when its plan's session is kept and its selection is *)
(* still the one the plan was made from (with_restore_start_selection),    *)
(* whatever happened between the preflight and the commit.                 *)
THEOREM StartsAreConfirmed == Spec => StartsConfirmedSelection
  <1> DEFINE Confirmed(p) ==
                ~jobs[p].retained /\ jobs'[p].retained =>
                   /\ Kept(plans[p].scan)
                   /\ scans[plans[p].scan].selected = plans[p].selected
  <1>1. ASSUME IInv, [Next]_vars
        PROVE  \A p \in Plans : Confirmed(p)
    <2>1. JobsType /\ CallType /\ StartInv
      BY <1>1, TypeParts DEF IInv
    <2> SUFFICES ASSUME NEW p \in Plans, ~jobs[p].retained, jobs'[p].retained
                 PROVE  /\ Kept(plans[p].scan)
                        /\ scans[plans[p].scan].selected = plans[p].selected
      OBVIOUS
    <2>2. ~\E q \in RetainedJobs : \E j : jobs' = [jobs EXCEPT ![q] = j]
      BY <2>1 DEF JobsType, RetainedJobs
    <2>3. PICK c \in Callers : CommitStart(c)
      BY <1>1, <2>2, JobChanges DEF IInv
    <2>4. /\ SelectionStillHolds(call[c].plan)
          /\ jobs' = [jobs EXCEPT ![call[c].plan] = QueuedJob]
      BY <2>3 DEF CommitStart
    <2>5. call[c].plan = p
      BY <2>1, <2>4 DEF JobsType
    <2> QED BY <2>4, <2>5 DEF SelectionStillHolds
  <1>2. IInv /\ [Next]_vars =>
           [\A p \in Plans :
               ~jobs[p].retained /\ jobs'[p].retained =>
                  /\ Kept(plans[p].scan)
                  /\ scans[plans[p].scan].selected = plans[p].selected]_vars
    BY <1>1
  <1> QED BY <1>2, StartInvariant, PTL DEF Spec, StartsConfirmedSelection

-----------------------------------------------------------------------------
(* The limits.                                                             *)

Within(S, limit) == IsFiniteSet(S) /\ Cardinality(S) <= limit

BoundsInv == /\ Within(BoundDestinations, MaxDestinations)
             /\ Within(RetainedPlans, MaxPlans) /\ Within(RetainedJobs, MaxJobs)

LEMMA WithinSubset ==
    ASSUME NEW S, NEW U \in SUBSET S, NEW limit \in Nat, Within(S, limit)
    PROVE  Within(U, limit)
  <1>1. IsFiniteSet(U) /\ Cardinality(U) <= Cardinality(S)
    BY FS_Subset DEF Within
  <1>2. Cardinality(U) \in Nat /\ Cardinality(S) \in Nat
    BY <1>1, FS_CardinalityType DEF Within
  <1> QED BY <1>1, <1>2 DEF Within

LEMMA WithinOneMore ==
    ASSUME NEW S, NEW x, NEW U \in SUBSET (S \cup {x}), NEW limit \in Nat,
           Within(S, limit), Cardinality(S) < limit
    PROVE  Within(U, limit)
  <1>1. /\ IsFiniteSet(S \cup {x})
        /\ Cardinality(S \cup {x}) \in {Cardinality(S), Cardinality(S) + 1}
    BY FS_AddElement DEF Within
  <1>2. Cardinality(S) \in Nat
    BY FS_CardinalityType DEF Within
  <1>3. Within(S \cup {x}, limit)
    BY <1>1, <1>2 DEF Within
  <1> QED BY <1>3, WithinSubset

LEMMA BoundsInit == Init => BoundsInv
  <1> SUFFICES ASSUME Init PROVE BoundsInv
    OBVIOUS
  <1>1. BoundDestinations = {} /\ RetainedPlans = {} /\ RetainedJobs = {}
    BY DEF Init, BoundDestinations, RetainedPlans, RetainedJobs, Unbound, NoPlan, NoJob
  <1> QED BY <1>1, FS_EmptySet DEF BoundsInv, Within

LEMMA DestinationsWithin ==
    ASSUME TypeOK, Within(BoundDestinations, MaxDestinations), [Next]_vars
    PROVE  Within(BoundDestinations, MaxDestinations)'
  <1>1. CASE \E c \in Callers : AdmitDestination(c) /\ destinations' # destinations
    <2>1. PICK c \in Callers, d \in Destinations \ BoundDestinations :
             /\ Cardinality(BoundDestinations) < MaxDestinations
             /\ destinations' = [destinations EXCEPT ![d] = Bound(call[c].scan)]
      BY <1>1 DEF AdmitDestination
    <2>2. BoundDestinations' \subseteq BoundDestinations \cup {d}
      BY <2>1 DEF BoundDestinations, TypeOK
    <2> QED BY <2>1, <2>2, WithinOneMore DEF Within
  <1>2. CASE UNCHANGED destinations
    BY <1>2 DEF Within, BoundDestinations
  <1>3. (\E c \in Callers : AdmitDestination(c)) \/ UNCHANGED destinations
    BY DEF Next, StoreStep, Command, CommandSection, OpenPicker, ClosePicker,
           SnapshotSelection, CheckPlan, InsertPlan, Preflight, CommitStart, Launch,
           Withdraw, RequestCancel, MarkCancelling, Worker, BeginWorker,
           OpenSourceFails, EngineReportsTo, Stream, EndWorker, WorkerStep, vars
  <1> QED BY <1>1, <1>2, <1>3

LEMMA PlansWithin ==
    ASSUME TypeOK, StartInv, Within(RetainedPlans, MaxPlans), [Next]_vars
    PROVE  Within(RetainedPlans, MaxPlans)'
  <1> USE TypeParts
  <1>1. ASSUME NEW c \in Callers, InsertPlan(c), plans' # plans
        PROVE  Within(RetainedPlans, MaxPlans)'
    <2>1. PICK p \in Plans \ RetainedPlans :
             /\ Cardinality(RetainedPlans) < MaxPlans
             /\ plans' = [plans EXCEPT ![p] = NewPlan(c)]
      BY <1>1 DEF InsertPlan, CanRetainPlan
    <2>2. RetainedPlans' \subseteq RetainedPlans \cup {p}
      BY <2>1 DEF RetainedPlans, PlansType
    <2> QED BY <2>1, <2>2, WithinOneMore DEF Within
  <1>2. ASSUME NEW c \in Callers, CommitStart(c) \/ Withdraw(c)
        PROVE  Within(RetainedPlans, MaxPlans)'
    <2>1. call[c].plan \in Plans
      BY <1>2, CallFields DEF CommitStart, Withdraw
    <2>2. CASE CommitStart(c)
      <3>1. \/ plans' = plans
            \/ /\ call[c].plan \in RetainedPlans
               /\ plans' = [plans EXCEPT ![call[c].plan].started = TRUE]
        BY <2>1, <2>2 DEF CommitStart, CanStart, RetainedPlans
      <3>2. RetainedPlans' \subseteq RetainedPlans
        BY <3>1 DEF RetainedPlans, PlansType
      <3> QED BY <3>2, WithinSubset DEF Within
    <2>3. CASE Withdraw(c)
      <3>1. /\ call[c].plan \in RetainedPlans
            /\ plans' = [plans EXCEPT ![call[c].plan].started = FALSE]
        BY <2>1, <2>3 DEF Withdraw, StartInv, StartsOwnTheirJobs, StartedIffJob,
                          Starting, RetainedPlans
      <3>2. RetainedPlans' \subseteq RetainedPlans
        BY <3>1 DEF RetainedPlans, PlansType
      <3> QED BY <3>2, WithinSubset DEF Within
    <2> QED BY <1>2, <2>2, <2>3
  <1>3. CASE UNCHANGED plans
    BY <1>3 DEF Within, RetainedPlans
  <1>4. \/ UNCHANGED plans
        \/ \E c \in Callers : InsertPlan(c) \/ CommitStart(c) \/ Withdraw(c)
    BY DEF Next, StoreStep, Command, CommandSection, OpenPicker, ClosePicker,
           AdmitDestination, SnapshotSelection, CheckPlan, Preflight, Launch,
           RequestCancel, MarkCancelling, Worker, BeginWorker, OpenSourceFails,
           EngineReportsTo, Stream, EndWorker, WorkerStep, vars
  <1> QED BY <1>1, <1>2, <1>3, <1>4

LEMMA JobsWithin ==
    ASSUME TypeOK, StartInv, Within(RetainedJobs, MaxJobs), [Next]_vars
    PROVE  Within(RetainedJobs, MaxJobs)'
  <1> USE TypeParts
  <1>1. CASE UNCHANGED jobs
    BY <1>1 DEF Within, RetainedJobs
  <1>2. ASSUME NEW c \in Callers, CommitStart(c), jobs' # jobs
        PROVE  Within(RetainedJobs, MaxJobs)'
    <2>1. /\ Cardinality(RetainedJobs) < MaxJobs
          /\ jobs' = [jobs EXCEPT ![call[c].plan] = QueuedJob]
      BY <1>2 DEF CommitStart, CanStart
    <2>2. RetainedJobs' \subseteq RetainedJobs \cup {call[c].plan}
      BY <2>1 DEF RetainedJobs, JobsType
    <2> QED BY <2>1, <2>2, WithinOneMore DEF Within
  <1>3. ASSUME NEW q \in RetainedJobs, NEW j, jobs' = [jobs EXCEPT ![q] = j]
        PROVE  Within(RetainedJobs, MaxJobs)'
    <2>1. RetainedJobs' \subseteq RetainedJobs
      BY <1>3 DEF RetainedJobs, JobsType
    <2> QED BY <2>1, WithinSubset DEF Within
  <1> QED BY <1>1, <1>2, <1>3, JobChanges

(* The lists of destinations, plans and jobs keep to their limits although *)
(* they are measured before and after the I/O of several commands at once  *)
(* (create_restore_plan, select_restore_destination, start_restore).       *)
THEOREM ListsAreBounded == Spec => []RetentionBounds
  <1>1. Init => BoundsInv
    BY BoundsInit
  <1>2. IInv /\ BoundsInv /\ [Next]_vars => BoundsInv'
    BY DestinationsWithin, PlansWithin, JobsWithin DEF IInv, BoundsInv
  <1>3. BoundsInv => RetentionBounds
    BY DEF BoundsInv, Within, RetentionBounds
  <1> QED BY <1>1, <1>2, <1>3, StartInvariant, PTL DEF Spec
-----------------------------------------------------------------------------
(***************************************************************************)
(* What the user is shown of a restore job is true and only moves forward, *)
(* for every interleaving of commands, cancellations and workers, every    *)
(* number of items and everything the engine can report.                   *)
(*                                                                         *)
(* The argument is an invariant about each launched job alone, JobIsSound, *)
(* that relates what the job shows to what the engine reported; each       *)
(* write to a job is a lemma about one record.                             *)
(***************************************************************************)

(* The engine's report of a job of n items.                                *)
EngineIsSound(e, n, asked) ==
    /\ e.done <= n
    /\ e.open => e.done < n /\ e.bad = "none"
    /\ e.bad \in {"failed", "cancelled"} => e.done < n
    /\ e.bad = "cancelled" => asked
    /\ e.answer = "ok" => e.bad = "none" /\ e.done = n /\ ~e.open
    /\ e.answer = "cancelled" => e.bad = "cancelled"

(* A launched job of n items and b bytes.                                  *)
JobIsSound(j, n, b) ==
    /\ j.thread # "none"
    /\ EngineIsSound(j.engine, n, j.asked)
    /\ j.completed = j.engine.done
    /\ j.failed = IF j.engine.bad = "failed" THEN 1 ELSE 0
    /\ j.cancelled = IF j.engine.bad = "cancelled" THEN 1 ELSE 0
    /\ j.item # NoItem => /\ j.thread = "opened" /\ j.engine.open
                          /\ j.item = j.engine.done
    /\ ~j.engine.open => j.current = 0
    /\ j.thread = "spawned" => /\ j.status \in {"queued", "cancelling"}
                               /\ j.engine = NoReport /\ j.committed = 0
    /\ j.thread = "opened" => j.status \in {"running", "cancelling"}
    /\ j.thread = "ended" =>
          /\ j.status \in Terminal /\ j.current = 0
          /\ j.status = "completed" <=> j.engine.answer = "ok"
          /\ j.status = "completed" => j.manifest = n /\ j.committed = b
          /\ j.status = "cancelled" => j.asked
          /\ j.manifest # NoManifest => j.manifest <= j.completed

JobsAreSound ==
    \A p \in Plans : Launched(p) => JobIsSound(jobs[p], ItemsTotal(p), BytesTotal(p))

(* A start that has committed has its job as it was queued.                *)
StartsAreQueued ==
    \A c \in Callers : At(c, "launch") => jobs[call[c].plan] = QueuedJob

SnapshotInv == JobsAreSound /\ StartsAreQueued /\ CancelSticks

-----------------------------------------------------------------------------
(* What the engine reports next.                                           *)
EngineMoves(e, f, n, asked) ==
    /\ e.answer = "none" /\ f \in EngineReport
    /\ \/ /\ ~e.open /\ e.bad = "none" /\ e.done < n
          /\ f.open /\ f.done = e.done /\ f.bad = e.bad /\ f.answer = "none"
       \/ /\ e.open /\ ~f.open /\ f.answer = "none"
          /\ \/ f.done = e.done + 1 /\ f.bad \in {e.bad, "reconcile"}
             \/ f.done = e.done /\ f.bad = "failed"
             \/ f.done = e.done /\ f.bad = "cancelled" /\ asked
       \/ /\ f.open = e.open /\ f.done = e.done /\ f.bad = e.bad
          /\ \/ f.answer = "error"
             \/ /\ ~e.open /\ (e.bad # "none" \/ e.done = n)
                /\ f.answer \in {"ok", "cancelled", "error"}
                /\ f.answer = "ok" => e.bad = "none"
                /\ f.answer = "cancelled" => e.bad = "cancelled"

LEMMA EngineStepMoves ==
    ASSUME NEW e \in EngineReport, NEW n \in Nat, NEW asked \in BOOLEAN,
           NEW f \in EngineStep(e, n, asked)
    PROVE  EngineMoves(e, f, n, asked)
  <1>0. e.done \in Nat /\ e.done + 1 \in Nat
    BY DEF EngineReport
  <1>1. e.answer = "none" /\ f \in EngineReport
    BY EngineStepType DEF EngineStep, When
  <1>2. CASE f \in ItemStarted(e, n)
    <2>1. f = [e EXCEPT !.open = TRUE] /\ ~e.open /\ e.bad = "none" /\ e.done < n
      BY <1>2 DEF ItemStarted, When
    <2>2. f.open /\ f.done = e.done /\ f.bad = e.bad /\ f.answer = e.answer
      BY <2>1 DEF EngineReport
    <2> QED BY <1>1, <2>1, <2>2 DEF EngineMoves
  <1>3. CASE f \in ItemFinished(e, asked)
    <2>1. PICK d \in {e.done, e.done + 1}, b \in BadOutcomes \cup {"none"} :
             /\ f = Finished(e, d, b)
             /\ e.open
             /\ \/ d = e.done + 1 /\ b \in {e.bad, "reconcile"}
                \/ d = e.done /\ b = "failed"
                \/ d = e.done /\ b = "cancelled" /\ asked
      BY <1>3, FinishedForms
    <2>2. f.open = FALSE /\ f.done = d /\ f.bad = b /\ f.answer = e.answer
      BY <2>1, Zenon DEF EngineReport, Finished
    <2> QED BY <1>1, <2>1, <2>2 DEF EngineMoves
  <1>4. CASE f \in CallReturned(e, n)
    <2>1. CASE f = [e EXCEPT !.answer = "error"]
      <3>1. f.open = e.open /\ f.done = e.done /\ f.bad = e.bad /\ f.answer = "error"
        BY <2>1, Zenon DEF EngineReport
      <3> QED BY <1>1, <3>1 DEF EngineMoves
    <2>2. CASE f \in When(~e.open /\ (e.bad # "none" \/ e.done = n),
                 {[e EXCEPT !.announced = TRUE,
                            !.answer = CASE e.bad = "none"      -> "ok"
                                         [] e.bad = "cancelled" -> "cancelled"
                                         [] OTHER               -> "error"]})
      <3>1. PICK a : a = CASE e.bad = "none"      -> "ok"
                           [] e.bad = "cancelled" -> "cancelled"
                           [] OTHER               -> "error"
        OBVIOUS
      <3>2. /\ a \in {"ok", "cancelled", "error"}
            /\ a = "ok" => e.bad = "none"
            /\ a = "cancelled" => e.bad = "cancelled"
        BY <3>1
      <3>3. /\ f = [e EXCEPT !.announced = TRUE, !.answer = a]
            /\ ~e.open /\ (e.bad # "none" \/ e.done = n)
        BY <2>2, <3>1 DEF When
      <3>4. f.open = e.open /\ f.done = e.done /\ f.bad = e.bad /\ f.answer = a
        BY <3>2, <3>3, Zenon DEF EngineReport
      <3> QED BY <1>1, <3>2, <3>3, <3>4 DEF EngineMoves
    <2> QED BY <1>4, <2>1, <2>2 DEF CallReturned
  <1> QED BY <1>2, <1>3, <1>4 DEF EngineStep, When

LEMMA EngineStaysSound ==
    ASSUME NEW e \in EngineReport, NEW f, NEW n \in Nat, NEW asked \in BOOLEAN,
           EngineMoves(e, f, n, asked), EngineIsSound(e, n, asked)
    PROVE  EngineIsSound(f, n, asked)
  <1>1. e.done \in Nat /\ e.open \in BOOLEAN /\ f.done \in Nat /\ f.open \in BOOLEAN
    BY DEF EngineMoves, EngineReport
  <1> QED BY <1>1 DEF EngineMoves, EngineIsSound

-----------------------------------------------------------------------------
(* What each write leaves of a job, field by field.                        *)
SameCounts(j, k) == /\ k.completed = j.completed /\ k.failed = j.failed
                    /\ k.cancelled = j.cancelled
SameBytes(j, k)  == k.committed = j.committed /\ k.current = j.current

LEMMA BegunFields ==
    ASSUME NEW j \in Job, NEW k, k = [Begun(j) EXCEPT !.thread = "opened"]
    PROVE  /\ SameCounts(j, k) /\ SameBytes(j, k) /\ k.engine = j.engine
           /\ k.asked = j.asked /\ k.item = j.item /\ k.manifest = j.manifest
           /\ k.thread = "opened"
           /\ k.status = IF j.status = "queued" THEN "running" ELSE j.status
  BY DEF Begun, Job, Statuses, SameCounts, SameBytes

LEMMA AskedFields ==
    ASSUME NEW j \in Job, NEW k, k = [j EXCEPT !.asked = TRUE]
    PROVE  /\ SameCounts(j, k) /\ SameBytes(j, k) /\ k.engine = j.engine
           /\ k.asked = TRUE /\ k.item = j.item /\ k.manifest = j.manifest
           /\ k.thread = j.thread /\ k.status = j.status
  BY DEF Job, SameCounts, SameBytes

LEMMA CancellingFields ==
    ASSUME NEW j \in Job, NEW k, k = [j EXCEPT !.status = CancelledStatus(@)]
    PROVE  /\ SameCounts(j, k) /\ SameBytes(j, k) /\ k.engine = j.engine
           /\ k.asked = j.asked /\ k.item = j.item /\ k.manifest = j.manifest
           /\ k.thread = j.thread /\ k.status = CancelledStatus(j.status)
  <1>1. CancelledStatus(j.status) \in Statuses
    BY DEF CancelledStatus, Job, Statuses
  <1> QED BY <1>1, Zenon DEF Job, SameCounts, SameBytes

LEMMA FailedFields ==
    ASSUME NEW j \in Job, NEW status \in Statuses, NEW m \in Nat \cup {NoManifest},
           NEW k, k = FailedAs(j, status, m)
    PROVE  /\ SameCounts(j, k) /\ k.engine = j.engine /\ k.current = 0
           /\ k.committed = j.committed /\ k.asked = j.asked /\ k.item = NoItem
           /\ k.manifest = m /\ k.thread = "ended" /\ k.status = status
  BY DEF FailedAs, Job, SameCounts

LEMMA CompletedFields ==
    ASSUME NEW j \in Job, NEW n \in Nat, NEW b \in Nat, NEW k, k = CompletedAs(j, n, b)
    PROVE  /\ k.completed = n /\ k.failed = 0 /\ k.cancelled = 0
           /\ k.engine = j.engine /\ k.current = 0 /\ k.committed = b
           /\ k.asked = j.asked /\ k.item = NoItem /\ k.manifest = n
           /\ k.thread = "ended"
           /\ k.status = IF j.completed = n /\ j.failed = 0 /\ j.cancelled = 0
                         THEN "completed" ELSE "failed"
  BY DEF CompletedAs, Job, Statuses

LEMMA StreamFields ==
    ASSUME NEW j \in Job, NEW k, k = [j EXCEPT !.current = @ + 1]
    PROVE  /\ SameCounts(j, k) /\ k.engine = j.engine
           /\ k.committed = j.committed /\ k.asked = j.asked /\ k.item = j.item
           /\ k.manifest = j.manifest /\ k.thread = j.thread /\ k.status = j.status
  BY Zenon DEF Job, SameCounts

ObservedAs(j, e, k) ==
    /\ k.engine = e /\ k.asked = j.asked /\ k.manifest = j.manifest
    /\ k.thread = j.thread /\ k.status = j.status
    /\ e.open /\ ~j.engine.open =>
          /\ SameCounts(j, k) /\ k.item = j.engine.done /\ k.current = 0
          /\ k.committed = j.committed
    /\ ~e.open /\ j.engine.open =>
          /\ k.item = NoItem /\ k.current = 0
          /\ k.completed = j.completed + (e.done - j.engine.done)
          /\ k.failed = IF e.bad = "failed" THEN j.failed + 1 ELSE j.failed
          /\ k.cancelled = IF e.bad = "cancelled" THEN j.cancelled + 1 ELSE j.cancelled
    /\ (e.open <=> j.engine.open) =>
          SameCounts(j, k) /\ SameBytes(j, k) /\ k.item = j.item

LEMMA ObservedFields ==
    ASSUME NEW j \in Job, NEW e \in EngineReport, e.done >= j.engine.done,
           NEW k, k = [Observed(j, e) EXCEPT !.engine = e]
    PROVE  ObservedAs(j, e, k)
  <1>1. j.engine.done \in Nat /\ e.done \in Nat /\ j.engine.open \in BOOLEAN
        /\ e.open \in BOOLEAN /\ e.done - j.engine.done \in Nat
    BY DEF Job, EngineReport
  <1>2. /\ j.committed + j.current \in Nat
        /\ j.completed + (e.done - j.engine.done) \in Nat
        /\ (IF e.bad = "failed" THEN j.failed + 1 ELSE j.failed) \in Nat
        /\ (IF e.bad = "cancelled" THEN j.cancelled + 1 ELSE j.cancelled) \in Nat
    BY <1>1 DEF Job
  <1>3. PICK o : o = Observed(j, e)
    OBVIOUS
  <1>4. k = [o EXCEPT !.engine = e]
    BY <1>3
  <1>5. o \in Job => /\ k.engine = e /\ k.asked = o.asked /\ k.manifest = o.manifest
                     /\ k.thread = o.thread /\ k.status = o.status
                     /\ SameCounts(o, k) /\ SameBytes(o, k) /\ k.item = o.item
    BY <1>4, Zenon DEF Job, SameCounts, SameBytes
  <1>6. CASE e.open /\ ~j.engine.open
    <2>1. o = [j EXCEPT !.item = j.engine.done, !.current = 0]
      BY <1>3, <1>6 DEF Observed
    <2>2. j.engine.done \in Nat \cup {NoItem} /\ 0 \in Nat
      BY <1>1
    <2>3. /\ o \in Job /\ SameCounts(j, o) /\ o.item = j.engine.done /\ o.current = 0
          /\ o.committed = j.committed /\ o.asked = j.asked /\ o.manifest = j.manifest
          /\ o.thread = j.thread /\ o.status = j.status
      BY <2>1, <2>2, Zenon DEF Job, SameCounts
    <2> QED BY <1>5, <1>6, <2>3 DEF SameCounts, SameBytes, ObservedAs
  <1>7. CASE ~e.open /\ j.engine.open
    <2> DEFINE c == j.completed + (e.done - j.engine.done)
               f == IF e.bad = "failed" THEN j.failed + 1 ELSE j.failed
               x == IF e.bad = "cancelled" THEN j.cancelled + 1 ELSE j.cancelled
    <2>1. o = [j EXCEPT !.committed = j.committed + j.current, !.current = 0, !.item = NoItem,
                        !.completed = c, !.failed = f, !.cancelled = x]
      BY <1>3, <1>7 DEF Observed
    <2>2. c \in Nat /\ f \in Nat /\ x \in Nat
      BY <1>2
    <2>3. 0 \in Nat /\ NoItem \in Nat \cup {NoItem}
      OBVIOUS
    <2> HIDE DEF c, f, x
    <2>4. /\ o \in Job /\ o.completed = c /\ o.failed = f /\ o.cancelled = x
          /\ o.item = NoItem /\ o.current = 0
          /\ o.asked = j.asked /\ o.manifest = j.manifest
          /\ o.thread = j.thread /\ o.status = j.status
      BY <1>2, <2>1, <2>2, <2>3, Zenon DEF Job
    <2>5. k.completed = c /\ k.failed = f /\ k.cancelled = x
      BY <1>5, <2>4 DEF SameCounts
    <2>6. k.item = NoItem /\ k.current = 0 /\ k.engine = e /\ k.asked = j.asked
          /\ k.manifest = j.manifest /\ k.thread = j.thread /\ k.status = j.status
      BY <1>5, <2>4 DEF SameBytes
    <2> USE DEF c, f, x
    <2> QED BY <1>7, <2>5, <2>6 DEF ObservedAs
  <1>8. CASE e.open <=> j.engine.open
    <2>1. o = j
      BY <1>3, <1>8 DEF Observed
    <2> QED BY <1>5, <1>8, <2>1 DEF ObservedAs
  <1> QED BY <1>1, <1>6, <1>7, <1>8 DEF ObservedAs

-----------------------------------------------------------------------------
(* Each write keeps the job sound and is an advance.                       *)
Advances(j, k, n, b) == JobIsSound(k, n, b) /\ Follows(j, k)

(* A worker does not touch the cancel flag.                                *)
WorksOn(j, k, n, b) == Advances(j, k, n, b) /\ k.asked = j.asked

LEMMA JobFields ==
    ASSUME NEW j \in Job
    PROVE  /\ j.completed \in Nat /\ j.failed \in Nat /\ j.cancelled \in Nat
           /\ j.item \in Nat \cup {NoItem} /\ j.manifest \in Nat \cup {NoManifest}
           /\ j.status \in Statuses /\ j.asked \in BOOLEAN
           /\ j.thread \in {"none", "spawned", "opened", "ended"}
           /\ j.engine \in EngineReport /\ j.engine.done \in Nat /\ j.engine.open \in BOOLEAN
           /\ j.engine.bad \in BadOutcomes \cup {"none"}
           /\ j.engine.answer \in {"none", "ok", "cancelled", "error"}
  BY DEF Job, EngineReport

LEMMA LegalMoves ==
    \A s \in Statuses : /\ s \in LegalTransitions[s]
                        /\ CancelledStatus(s) \in LegalTransitions[s]
                        /\ s \notin Terminal => Terminal \subseteq LegalTransitions[s]
                        /\ s = "queued" => "running" \in LegalTransitions[s]
  BY DEF Statuses, LegalTransitions, CancelledStatus, Terminal

LEMMA BegunAdvances ==
    ASSUME NEW j \in Job, NEW n \in Nat, NEW b \in Nat, JobIsSound(j, n, b),
           j.thread = "spawned", NEW k, k = [Begun(j) EXCEPT !.thread = "opened"]
    PROVE  WorksOn(j, k, n, b)
  <1>1. /\ SameCounts(j, k) /\ SameBytes(j, k) /\ k.engine = j.engine
        /\ k.asked = j.asked /\ k.item = j.item /\ k.manifest = j.manifest
        /\ k.thread = "opened"
        /\ k.status = IF j.status = "queued" THEN "running" ELSE j.status
    BY BegunFields
  <1>2. j.status \in {"queued", "cancelling"} /\ j.engine = NoReport /\ j.item = NoItem
    BY DEF JobIsSound, NoReport
  <1>3. /\ k.status \in LegalTransitions[j.status] /\ k.status \in {"running", "cancelling"}
        /\ j.status \notin Terminal
    BY <1>1, <1>2, JobFields, LegalMoves DEF Terminal
  <1>4. JobIsSound(k, n, b)
    BY <1>1, <1>2, <1>3, JobFields DEF JobIsSound, SameCounts, SameBytes, NoReport
  <1>5. Follows(j, k)
    BY <1>1, <1>2, <1>3, JobFields DEF Follows, SameCounts
  <1> QED BY <1>1, <1>4, <1>5 DEF Advances, WorksOn

LEMMA AskedAdvances ==
    ASSUME NEW j \in Job, NEW n \in Nat, NEW b \in Nat, JobIsSound(j, n, b),
           NEW k, k = [j EXCEPT !.asked = TRUE]
    PROVE  Advances(j, k, n, b)
  <1>1. JobIsSound(k, n, b)
    BY AskedFields, JobFields DEF JobIsSound, EngineIsSound, SameCounts, SameBytes
  <1>2. Follows(j, k)
    BY AskedFields, JobFields, LegalMoves
       DEF Follows, SameCounts, Dispositions, ShownManifest
  <1> QED BY <1>1, <1>2 DEF Advances

LEMMA CancellingAdvances ==
    ASSUME NEW j \in Job, NEW n \in Nat, NEW b \in Nat, JobIsSound(j, n, b),
           NEW k, k = [j EXCEPT !.status = CancelledStatus(@)]
    PROVE  Advances(j, k, n, b)
  <1>1. /\ k.status = CancelledStatus(j.status) /\ k.status \in LegalTransitions[j.status]
        /\ j.status \in Terminal => k.status = j.status
    BY CancellingFields, JobFields, LegalMoves DEF CancelledStatus, Terminal
  <1>2. JobIsSound(k, n, b)
    BY <1>1, CancellingFields, JobFields
       DEF JobIsSound, SameCounts, SameBytes, CancelledStatus, Statuses
  <1>3. Follows(j, k)
    BY <1>1, CancellingFields, JobFields
       DEF Follows, SameCounts, Dispositions, ShownManifest
  <1> QED BY <1>2, <1>3 DEF Advances

LEMMA StreamAdvances ==
    ASSUME NEW j \in Job, NEW n \in Nat, NEW b \in Nat, JobIsSound(j, n, b),
           j.thread = "opened", j.engine.open, NEW k, k = [j EXCEPT !.current = @ + 1]
    PROVE  WorksOn(j, k, n, b)
  <1>1. j.status \notin Terminal
    BY DEF JobIsSound, Terminal
  <1>2. JobIsSound(k, n, b)
    BY StreamFields, JobFields DEF JobIsSound, SameCounts
  <1>3. Follows(j, k)
    BY <1>1, StreamFields, JobFields, LegalMoves
       DEF Follows, SameCounts, Dispositions, ShownManifest
  <1> QED BY StreamFields, <1>2, <1>3 DEF Advances, WorksOn

LEMMA FailedAdvances ==
    ASSUME NEW j \in Job, NEW n \in Nat, NEW b \in Nat, JobIsSound(j, n, b),
           j.thread = "opened", NEW status \in {"failed", "cancelled"},
           NEW m \in {NoManifest, j.engine.done}, NEW k, k = FailedAs(j, status, m),
           j.engine.answer # "ok", status = "cancelled" => j.engine.answer = "cancelled"
    PROVE  WorksOn(j, k, n, b)
  <1>1. status \in Statuses /\ m \in Nat \cup {NoManifest}
    BY JobFields DEF Statuses
  <1>2. /\ SameCounts(j, k) /\ k.engine = j.engine /\ k.current = 0
        /\ k.committed = j.committed /\ k.asked = j.asked /\ k.item = NoItem
        /\ k.manifest = m /\ k.thread = "ended" /\ k.status = status
    BY <1>1, FailedFields
  <1>3. status = "cancelled" => j.asked
    BY DEF JobIsSound, EngineIsSound
  <1>4. JobIsSound(k, n, b)
    BY <1>2, <1>3, JobFields DEF JobIsSound, SameCounts, Terminal
  <1>5. j.status \notin Terminal /\ k.status \in Terminal
    BY <1>2 DEF JobIsSound, Terminal
  <1>6. Follows(j, k)
    BY <1>2, <1>5, JobFields, LegalMoves DEF Follows, SameCounts
  <1> QED BY <1>2, <1>4, <1>6 DEF Advances, WorksOn

LEMMA CompletedAdvances ==
    ASSUME NEW j \in Job, NEW n \in Nat, NEW b \in Nat, JobIsSound(j, n, b),
           j.thread = "opened", NEW k, k = CompletedAs(j, n, b), j.engine.answer = "ok"
    PROVE  WorksOn(j, k, n, b)
  <1>1. j.completed = n /\ j.failed = 0 /\ j.cancelled = 0 /\ j.engine.done = n
        /\ j.engine.bad = "none"
    BY DEF JobIsSound, EngineIsSound
  <1>2. /\ SameCounts(j, k) /\ k.engine = j.engine /\ k.current = 0 /\ k.committed = b
        /\ k.asked = j.asked /\ k.item = NoItem /\ k.manifest = n
        /\ k.thread = "ended" /\ k.status = "completed"
    BY <1>1, CompletedFields DEF SameCounts
  <1>3. JobIsSound(k, n, b)
    BY <1>1, <1>2, JobFields DEF JobIsSound, SameCounts, Terminal
  <1>4. j.status \notin Terminal /\ k.status \in Terminal
    BY <1>2 DEF JobIsSound, Terminal
  <1>5. Follows(j, k)
    BY <1>2, <1>4, JobFields, LegalMoves DEF Follows, SameCounts
  <1> QED BY <1>2, <1>3, <1>5 DEF Advances, WorksOn

LEMMA ObservedAdvances ==
    ASSUME NEW j \in Job, NEW n \in Nat, NEW b \in Nat, JobIsSound(j, n, b),
           j.thread = "opened", NEW e \in EngineReport, EngineMoves(j.engine, e, n, j.asked),
           NEW k, k = [Observed(j, e) EXCEPT !.engine = e]
    PROVE  WorksOn(j, k, n, b)
  <1>1. /\ EngineIsSound(j.engine, n, j.asked) /\ j.engine.done \in Nat /\ j.engine.open \in BOOLEAN
        /\ e.done \in Nat /\ e.open \in BOOLEAN /\ j.asked \in BOOLEAN /\ j.engine \in EngineReport
    BY JobFields DEF JobIsSound, EngineReport
  <1>2. EngineIsSound(e, n, j.asked) /\ e.done >= j.engine.done
    BY <1>1, EngineStaysSound DEF EngineMoves
  <1>3. ObservedAs(j, e, k)
    BY <1>2, ObservedFields
  <1>4. j.status \in {"running", "cancelling"}
    BY DEF JobIsSound
  <1>5. k.status \in LegalTransitions[j.status] /\ j.status \notin Terminal
    BY <1>3, <1>4, JobFields, LegalMoves DEF Terminal, ObservedAs
  <1>6. CASE e.open /\ ~j.engine.open
    <2>1. SameCounts(j, k) /\ k.item = j.engine.done /\ k.current = 0
      BY <1>3, <1>6 DEF ObservedAs
    <2>2. e.done = j.engine.done /\ e.bad = j.engine.bad /\ j.item = NoItem
      BY <1>6 DEF EngineMoves, JobIsSound
    <2>3. JobIsSound(k, n, b)
      BY <1>1, <1>2, <1>3, <1>4, <1>6, <2>1, <2>2 DEF JobIsSound, ObservedAs, SameCounts
    <2>4. Follows(j, k)
      BY <1>5, <2>1, <2>2, JobFields DEF Follows, SameCounts
    <2> QED BY <1>3, <2>3, <2>4 DEF ObservedAs, Advances, WorksOn
  <1>7. CASE ~e.open /\ j.engine.open
    <2>1. /\ k.item = NoItem /\ k.current = 0
          /\ k.completed = j.completed + (e.done - j.engine.done)
          /\ k.failed = IF e.bad = "failed" THEN j.failed + 1 ELSE j.failed
          /\ k.cancelled = IF e.bad = "cancelled" THEN j.cancelled + 1 ELSE j.cancelled
      BY <1>3, <1>7 DEF ObservedAs
    <2>2. /\ j.engine.bad = "none" /\ j.failed = 0 /\ j.cancelled = 0
          /\ j.completed = j.engine.done
      BY <1>7 DEF JobIsSound, EngineIsSound
    <2>3. \/ e.done = j.engine.done + 1 /\ e.bad \in {"none", "reconcile"}
          \/ e.done = j.engine.done /\ e.bad \in {"failed", "cancelled"}
      BY <1>7, <2>2 DEF EngineMoves
    <2>4. k.completed = e.done
      BY <1>1, <2>1, <2>2
    <2>5. JobIsSound(k, n, b)
      BY <1>1, <1>2, <1>3, <1>4, <1>7, <2>1, <2>2, <2>4 DEF JobIsSound, ObservedAs
    <2>6. Dispositions(j) < Dispositions(k)
      BY <1>1, <2>1, <2>2, <2>3, <2>4 DEF Dispositions
    <2>7. Follows(j, k)
      BY <1>1, <1>2, <1>5, <2>1, <2>2, <2>4, <2>6 DEF Follows
    <2> QED BY <1>3, <2>5, <2>7 DEF ObservedAs, Advances, WorksOn
  <1>8. CASE e.open <=> j.engine.open
    <2>1. SameCounts(j, k) /\ SameBytes(j, k) /\ k.item = j.item
      BY <1>3, <1>8 DEF ObservedAs
    <2>2. e.done = j.engine.done /\ e.bad = j.engine.bad
      BY <1>1, <1>8 DEF EngineMoves
    <2>3. JobIsSound(k, n, b)
      BY <1>2, <1>3, <1>4, <1>8, <2>1, <2>2 DEF JobIsSound, ObservedAs, SameCounts, SameBytes
    <2>4. Follows(j, k)
      BY <1>5, <2>1, JobFields DEF Follows, SameCounts
    <2> QED BY <1>3, <2>3, <2>4 DEF ObservedAs, Advances, WorksOn
  <1> QED BY <1>1, <1>6, <1>7, <1>8

-----------------------------------------------------------------------------
(* Which steps write a launched job.                                       *)
JobMoves(p) ==
    \/ jobs'[p] = jobs[p]
    \/ /\ jobs'[p] = [jobs[p] EXCEPT !.asked = TRUE]
       /\ \E c \in Callers : call'[c] = [at |-> "cancel", plan |-> p]
    \/ jobs'[p] = [jobs[p] EXCEPT !.status = CancelledStatus(@)]
    \/ Worker(p)

(* A step of another job.                                                  *)
LEMMA OtherJob ==
    ASSUME JobsType, NEW p \in Plans, NEW q \in Plans \ {p}, NEW j,
           jobs' = [jobs EXCEPT ![q] = j]
    PROVE  jobs'[p] = jobs[p]
  BY DEF JobsType

LEMMA WorkerStepJob ==
    ASSUME JobsType, NEW p \in Plans, NEW t, NEW j, WorkerStep(p, t, j)
    PROVE  /\ jobs[p].retained /\ jobs[p].thread = t /\ jobs'[p] = j
           /\ jobs' = [jobs EXCEPT ![p] = j] /\ UNCHANGED <<plans, call>>
  BY DEF WorkerStep, JobsType

LEMMA WorkerWrites ==
    ASSUME JobsType, NEW p \in Plans, Worker(p)
    PROVE  /\ jobs[p].retained /\ jobs[p].thread \in {"spawned", "opened"}
           /\ \E j : jobs' = [jobs EXCEPT ![p] = j]
           /\ UNCHANGED <<plans, call>>
  BY Zenon, WorkerStepJob DEF Worker, BeginWorker, OpenSourceFails, EngineReportsTo, Stream, EndWorker

(* What launches, moves and leaves a job.                                  *)
LEMMA JobSteps ==
    ASSUME TypeOK, StartInv, StartsAreQueued, [Next]_vars, NEW p \in Plans
    PROVE  /\ Launched(p) => JobMoves(p)
           /\ ~Launched(p) /\ Launched(p)' =>
                 jobs'[p] = [QueuedJob EXCEPT !.thread = "spawned"]
  <1> JobsType /\ CallType
    BY TypeParts
  <1> SUFFICES \/ JobMoves(p) /\ (jobs'[p] = jobs[p] \/ Launched(p))
               \/ ~Launched(p) /\ ~Launched(p)'
               \/ ~Launched(p) /\ jobs'[p] = [QueuedJob EXCEPT !.thread = "spawned"]
    BY DEF Launched
  <1>1. CASE UNCHANGED jobs
    BY <1>1 DEF JobMoves
  <1>2. ASSUME NEW c \in Callers, CommitStart(c)
        PROVE  \/ JobMoves(p) /\ (jobs'[p] = jobs[p] \/ Launched(p))
               \/ ~Launched(p) /\ ~Launched(p)'
    <2>1. call[c].plan \in Plans
      BY <1>2, CallFields DEF CommitStart
    <2>2. PICK q \in Plans : q = call[c].plan
      BY <2>1
    <2>3. UNCHANGED jobs \/ (~jobs[q].retained /\ jobs' = [jobs EXCEPT ![q] = QueuedJob])
      BY <1>2, <2>2 DEF CommitStart
    <2>4. CASE p = q /\ ~jobs[q].retained /\ jobs' = [jobs EXCEPT ![q] = QueuedJob]
      <3>1. jobs'[p] = QueuedJob
        BY <2>4 DEF JobsType
      <3> QED BY <2>4, <3>1 DEF Launched, QueuedJob
    <2>5. CASE p # q /\ jobs' = [jobs EXCEPT ![q] = QueuedJob]
      BY <2>5, OtherJob DEF JobMoves
    <2> QED BY <1>1, <2>3, <2>4, <2>5 DEF JobMoves
  <1>3. ASSUME NEW c \in Callers, Launch(c)
        PROVE  \/ JobMoves(p) /\ (jobs'[p] = jobs[p] \/ Launched(p))
               \/ ~Launched(p) /\ ~Launched(p)'
               \/ ~Launched(p) /\ jobs'[p] = [QueuedJob EXCEPT !.thread = "spawned"]
    <2>1. call[c].plan \in Plans /\ At(c, "launch")
      BY <1>3, CallFields DEF Launch
    <2>2. PICK q \in Plans : q = call[c].plan
      BY <2>1
    <2>3. jobs[q] = QueuedJob /\ jobs[q].thread = "none"
      <3>1. jobs[q] = QueuedJob
        BY <2>1, <2>2 DEF StartsAreQueued
      <3> QED BY <3>1 DEF QueuedJob
    <2>4. PICK k \in {[QueuedJob EXCEPT !.thread = "spawned"],
                      [QueuedJob EXCEPT !.status = "failed"]} : jobs' = [jobs EXCEPT ![q] = k]
      BY <1>3, <2>2, <2>3 DEF Launch
    <2>5. CASE p # q
      BY <2>4, <2>5, OtherJob DEF JobMoves
    <2>6. CASE p = q
      <3>1. ~Launched(p) /\ jobs'[p] = k
        BY <2>3, <2>4, <2>6 DEF Launched, JobsType
      <3>2. k = [QueuedJob EXCEPT !.status = "failed"] => k.thread = "none"
        BY DEF QueuedJob
      <3> QED BY <2>4, <3>1, <3>2 DEF Launched
    <2> QED BY <2>5, <2>6
  <1>4. ASSUME NEW c \in Callers, Withdraw(c)
        PROVE  \/ JobMoves(p) /\ (jobs'[p] = jobs[p] \/ Launched(p))
               \/ ~Launched(p) /\ ~Launched(p)'
    <2>1. call[c].plan \in Plans /\ At(c, "withdraw")
      BY <1>4, CallFields DEF Withdraw
    <2>2. PICK q \in Plans : q = call[c].plan
      BY <2>1
    <2>3. jobs[q].thread = "none" /\ jobs' = [jobs EXCEPT ![q] = NoJob]
      BY <1>4, <2>1, <2>2 DEF Withdraw, StartInv, StartsOwnTheirJobs, Starting
    <2>4. CASE p # q
      BY <2>3, <2>4, OtherJob DEF JobMoves
    <2>5. CASE p = q
      <3>1. jobs'[p] = NoJob
        BY <2>3, <2>5 DEF JobsType
      <3> QED BY <2>3, <2>5, <3>1 DEF Launched, NoJob
    <2> QED BY <2>4, <2>5
  <1>5. ASSUME NEW c \in Callers, NEW q \in Plans, RequestCancel(c, q)
        PROVE  JobMoves(p) /\ (jobs'[p] = jobs[p] \/ Launched(p))
    <2>1. /\ jobs' = [jobs EXCEPT ![q].asked = TRUE] /\ Launched(q)
          /\ Continue(c, [at |-> "cancel", plan |-> q])
      BY <1>5 DEF RequestCancel, Launched
    <2>2. jobs' = [jobs EXCEPT ![q] = [jobs[q] EXCEPT !.asked = TRUE]]
      BY <2>1
    <2>3. CASE p # q
      BY <2>2, <2>3, OtherJob DEF JobMoves
    <2>4. CASE p = q
      <3>1. jobs'[p] = [jobs[p] EXCEPT !.asked = TRUE]
        BY <2>2, <2>4 DEF JobsType
      <3>2. call'[c] = [at |-> "cancel", plan |-> p]
        BY <2>1, <2>4, CallChanged
      <3> QED BY <2>1, <2>4, <3>1, <3>2 DEF JobMoves
    <2> QED BY <2>3, <2>4
  <1>6. ASSUME NEW c \in Callers, MarkCancelling(c)
        PROVE  JobMoves(p) /\ (jobs'[p] = jobs[p] \/ Launched(p))
    <2>1. call[c].plan \in Plans /\ At(c, "cancel")
      BY <1>6, CallFields DEF MarkCancelling
    <2>2. PICK q \in Plans : q = call[c].plan
      BY <2>1
    <2>3. /\ jobs' = [jobs EXCEPT ![q] = [jobs[q] EXCEPT !.status = CancelledStatus(jobs[q].status)]]
          /\ Launched(q)
      BY <1>6, <2>1, <2>2 DEF MarkCancelling, StartInv, CancelsOfLaunched
    <2>4. CASE p # q
      BY <2>3, <2>4, OtherJob DEF JobMoves
    <2>5. CASE p = q
      <3>1. jobs'[p] = [jobs[p] EXCEPT !.status = CancelledStatus(jobs[p].status)]
        BY <2>3, <2>5 DEF JobsType
      <3> QED BY <2>3, <2>5, <3>1 DEF JobMoves
    <2> QED BY <2>4, <2>5
  <1>7. ASSUME NEW q \in Plans, Worker(q)
        PROVE  JobMoves(p) /\ (jobs'[p] = jobs[p] \/ Launched(p))
    <2>1. CASE p # q
      BY <1>7, <2>1, WorkerWrites, OtherJob DEF JobMoves
    <2>2. CASE p = q
      <3>1. Launched(p)
        BY <1>7, <2>2, WorkerWrites DEF Launched
      <3> QED BY <1>7, <2>2, <3>1 DEF JobMoves
    <2> QED BY <2>1, <2>2
  <1>8. CASE \/ StoreStep \/ UNCHANGED vars
             \/ \E c \in Callers :
                   \/ \E s \in Scans : OpenPicker(c, s)
                   \/ ClosePicker(c) \/ AdmitDestination(c)
                   \/ \E s \in Scans, d \in Destinations : SnapshotSelection(c, s, d)
                   \/ CheckPlan(c) \/ InsertPlan(c)
                   \/ \E q \in Plans : Preflight(c, q)
    <2>1. UNCHANGED jobs
      BY <1>8 DEF StoreStep, vars, OpenPicker, ClosePicker, AdmitDestination, SnapshotSelection,
         CheckPlan, InsertPlan, Preflight
    <2> QED BY <1>1, <2>1
  <1> QED BY <1>2, <1>3, <1>4, <1>5, <1>6, <1>7, <1>8 DEF Next, Command, CommandSection

(* The items of a launched job are those of its plan, which stays.         *)
LEMMA TotalsStay ==
    ASSUME TypeOK, StartInv, [Next]_vars, NEW p \in Plans, Launched(p)
    PROVE  /\ ItemsTotal(p)' = ItemsTotal(p) /\ BytesTotal(p)' = BytesTotal(p)
           /\ ItemsTotal(p) \in Nat /\ BytesTotal(p) \in Nat
  <1> PlansType /\ CallType
    BY TypeParts
  <1>1. plans[p].retained
    BY DEF Launched, StartInv, StartedIffJob
  <1>2. plans[p] \in RetainedPlan
    BY <1>1 DEF PlansType, NoPlan
  <1>3. plans'[p].selected = plans[p].selected
    <2>1. ASSUME NEW c \in Callers, InsertPlan(c)
          PROVE  plans'[p].selected = plans[p].selected
      BY <2>1, <1>1 DEF InsertPlan, RetainedPlans, PlansType
    <2>2. ASSUME NEW c \in Callers, CommitStart(c) \/ Withdraw(c)
          PROVE  plans'[p].selected = plans[p].selected
      <3>1. call[c].plan \in Plans
        BY <2>2, CallFields DEF CommitStart, Withdraw
      <3>2. PICK q \in Plans : q = call[c].plan
        BY <3>1
      <3>3. \/ plans' = plans
            \/ \E b \in BOOLEAN : plans' = [plans EXCEPT ![q] = [plans[q] EXCEPT !.started = b]]
        BY <2>2, <3>2 DEF CommitStart, Withdraw
      <3>4. \/ plans'[p] = plans[p]
            \/ \E b \in BOOLEAN : plans'[p] = [plans[p] EXCEPT !.started = b]
        BY <3>3 DEF PlansType
      <3> QED BY <1>2, <3>4, Zenon DEF RetainedPlan
    <2>3. CASE UNCHANGED plans
      BY <2>3
    <2>4. \/ UNCHANGED plans
          \/ \E c \in Callers : InsertPlan(c) \/ CommitStart(c) \/ Withdraw(c)
      BY DEF Next, StoreStep, Command, CommandSection, OpenPicker, ClosePicker,
             AdmitDestination, SnapshotSelection, CheckPlan, Preflight, Launch,
             RequestCancel, MarkCancelling, Worker, BeginWorker, OpenSourceFails,
             EngineReportsTo, Stream, EndWorker, WorkerStep, vars
    <2> QED BY <2>1, <2>2, <2>3, <2>4
  <1> QED BY <1>1, <1>3, ItemsTotalType DEF ItemsTotal, BytesTotal

(* Every write of a worker is an advance.                                  *)
LEMMA WorkerAdvances ==
    ASSUME TypeOK, StartInv, NEW p \in Plans, Worker(p), Launched(p),
           JobIsSound(jobs[p], ItemsTotal(p), BytesTotal(p))
    PROVE  WorksOn(jobs[p], jobs'[p], ItemsTotal(p), BytesTotal(p))
  <1> JobsType /\ PlansType
    BY TypeParts
  <1>1. jobs[p] \in Job
    BY RetainedJobType DEF Launched
  <1>2. ItemsTotal(p) \in Nat /\ BytesTotal(p) \in Nat
    BY ItemsTotalType DEF Launched, StartInv, StartedIffJob
  <1>3. PICK j, n, b, k : j = jobs[p] /\ n = ItemsTotal(p) /\ b = BytesTotal(p) /\ k = jobs'[p]
    OBVIOUS
  <1>4. j \in Job /\ n \in Nat /\ b \in Nat /\ JobIsSound(j, n, b)
    BY <1>1, <1>2, <1>3
  <1>5. CASE BeginWorker(p)
    <2>1. j.thread = "spawned" /\ k = [Begun(j) EXCEPT !.thread = "opened"]
      BY <1>3, <1>5, WorkerStepJob DEF BeginWorker
    <2>2. WorksOn(j, k, n, b)
      BY <1>4, <2>1, BegunAdvances
    <2> QED BY <1>3, <2>2
  <1>6. CASE OpenSourceFails(p)
    <2>1. /\ j.thread = "opened" /\ k = FailedAs(j, "failed", NoManifest)
          /\ j.engine = NoReport
      BY <1>3, <1>6, WorkerStepJob DEF OpenSourceFails, OpenFailed
    <2>2. j.engine.answer # "ok"
      BY <2>1 DEF NoReport
    <2>3. WorksOn(j, k, n, b)
      BY <1>4, <2>1, <2>2, FailedAdvances
    <2> QED BY <1>3, <2>3
  <1>7. CASE EngineReportsTo(p)
    <2>1. PICK e \in EngineStep(j.engine, n, j.asked) :
             WorkerStep(p, "opened", [Observed(j, e) EXCEPT !.engine = e])
      BY <1>3, <1>7 DEF EngineReportsTo
    <2>2. j.thread = "opened" /\ k = [Observed(j, e) EXCEPT !.engine = e]
      BY <1>3, <2>1, WorkerStepJob
    <2>3. e \in EngineReport /\ EngineMoves(j.engine, e, n, j.asked)
      BY <1>4, <2>1, JobFields, EngineStepType, EngineStepMoves
    <2>4. WorksOn(j, k, n, b)
      BY <1>4, <2>2, <2>3, ObservedAdvances
    <2> QED BY <1>3, <2>4
  <1>8. CASE Stream(p)
    <2>1. j.thread = "opened" /\ j.engine.open /\ k = [j EXCEPT !.current = @ + 1]
      BY <1>3, <1>8, WorkerStepJob DEF Stream
    <2>2. WorksOn(j, k, n, b)
      BY <1>4, <2>1, StreamAdvances
    <2> QED BY <1>3, <2>2
  <1>9. CASE EndWorker(p)
    <2>1. PICK w : w = CASE j.engine.answer = "ok" -> CompletedAs(j, n, b)
                         [] j.engine.answer = "cancelled" ->
                               FailedAs(j, "cancelled", PendingManifest(j))
                         [] OTHER -> FailedAs(j, "failed", PendingManifest(j))
      OBVIOUS
    <2>2. WorkerStep(p, "opened", w)
      BY <1>3, <1>9, <2>1 DEF EndWorker
    <2>3. j.thread = "opened" /\ k = w
      BY <1>3, <2>2, WorkerStepJob
    <2>4. PendingManifest(j) \in {NoManifest, j.engine.done}
      BY DEF PendingManifest
    <2>5. CASE j.engine.answer = "ok"
      <3>1. k = CompletedAs(j, n, b)
        BY <2>1, <2>3, <2>5
      <3>2. WorksOn(j, k, n, b)
        BY <1>4, <2>3, <2>5, <3>1, CompletedAdvances
      <3> QED BY <1>3, <3>2
    <2>6. CASE j.engine.answer = "cancelled"
      <3>1. k = FailedAs(j, "cancelled", PendingManifest(j)) /\ j.engine.answer # "ok"
        BY <2>1, <2>3, <2>6
      <3>2. WorksOn(j, k, n, b)
        BY <1>4, <2>3, <2>4, <2>6, <3>1, FailedAdvances
      <3> QED BY <1>3, <3>2
    <2>7. CASE j.engine.answer \notin {"ok", "cancelled"}
      <3>1. k = FailedAs(j, "failed", PendingManifest(j)) /\ j.engine.answer # "ok"
        BY <2>1, <2>3, <2>7
      <3>2. WorksOn(j, k, n, b)
        BY <1>4, <2>3, <2>4, <2>7, <3>1, FailedAdvances
      <3> QED BY <1>3, <3>2
    <2> QED BY <2>5, <2>6, <2>7
  <1> QED BY <1>5, <1>6, <1>7, <1>8, <1>9 DEF Worker

(* Every step is an advance of a launched job, or leaves it.               *)
LEMMA JobsAdvance ==
    ASSUME TypeOK, StartInv, SnapshotInv, [Next]_vars, NEW p \in Plans, Launched(p)
    PROVE  Advances(jobs[p], jobs'[p], ItemsTotal(p), BytesTotal(p))
  <1> JobsType
    BY TypeParts
  <1>1. PICK j, n, b, k : j = jobs[p] /\ n = ItemsTotal(p) /\ b = BytesTotal(p) /\ k = jobs'[p]
    OBVIOUS
  <1>2. j \in Job /\ n \in Nat /\ b \in Nat /\ JobIsSound(j, n, b)
    BY <1>1, RetainedJobType, TotalsStay DEF Launched, SnapshotInv, JobsAreSound
  <1>3. JobMoves(p)
    BY JobSteps DEF SnapshotInv
  <1>4. CASE k = j
    <2>1. Follows(j, j)
      BY <1>2, JobFields, LegalMoves DEF Follows
    <2> QED BY <1>1, <1>2, <1>4, <2>1 DEF Advances
  <1>5. CASE k = [j EXCEPT !.asked = TRUE]
    <2>1. Advances(j, k, n, b)
      BY <1>2, <1>5, AskedAdvances
    <2> QED BY <1>1, <2>1
  <1>6. CASE k = [j EXCEPT !.status = CancelledStatus(@)]
    <2>1. Advances(j, k, n, b)
      BY <1>2, <1>6, CancellingAdvances
    <2> QED BY <1>1, <2>1
  <1>7. CASE Worker(p)
    BY <1>1, <1>2, <1>7, WorkerAdvances DEF WorksOn
  <1> QED BY <1>1, <1>3, <1>4, <1>5, <1>6, <1>7 DEF JobMoves

-----------------------------------------------------------------------------
(* The invariant.                                                          *)

LEMMA SpawnedIsSound ==
    ASSUME NEW n \in Nat, NEW b \in Nat, NEW k, k = [QueuedJob EXCEPT !.thread = "spawned"]
    PROVE  JobIsSound(k, n, b) /\ ~k.asked
  <1>1. /\ k.thread = "spawned" /\ ~k.asked /\ k.status = "queued" /\ k.completed = 0
        /\ k.failed = 0 /\ k.cancelled = 0 /\ k.committed = 0 /\ k.current = 0
        /\ k.item = NoItem /\ k.manifest = NoManifest /\ k.engine = NoReport
    BY DEF QueuedJob
  <1> QED BY <1>1 DEF JobIsSound, EngineIsSound, NoReport

LEMMA LaunchedStays ==
    ASSUME TypeOK, StartInv, SnapshotInv, [Next]_vars, StartInv',
           NEW p \in Plans, Launched(p)
    PROVE  Launched(p)'
  <1> JobsType
    BY TypeParts
  <1>1. jobs'[p].thread # "none"
    BY JobsAdvance DEF Advances, JobIsSound
  <1>2. jobs[p] \in Job /\ jobs[p].retained /\ plans[p].retained /\ plans[p].started
    BY RetainedJobType DEF Launched, StartInv, StartedIffJob
  <1>3. CASE Worker(p)
    <2>1. UNCHANGED plans
      BY <1>3, WorkerWrites
    <2> QED BY <1>1, <1>2, <2>1 DEF StartInv, StartedIffJob, Launched
  <1>4. CASE jobs'[p] = [jobs[p] EXCEPT !.asked = TRUE]
    BY <1>1, <1>2, <1>4 DEF Launched, Job
  <1>5. CASE jobs'[p] = [jobs[p] EXCEPT !.status = CancelledStatus(@)]
    BY <1>1, <1>2, <1>5, Zenon DEF Launched, Job
  <1>6. CASE jobs'[p] = jobs[p]
    BY <1>6 DEF Launched
  <1> QED BY <1>3, <1>4, <1>5, <1>6, JobSteps DEF JobMoves, SnapshotInv

LEMMA JobsStaySound ==
    ASSUME TypeOK, StartInv, SnapshotInv, [Next]_vars, TypeOK', StartInv'
    PROVE  JobsAreSound'
  <1>1. SUFFICES ASSUME NEW p \in Plans, Launched(p)'
                 PROVE  JobIsSound(jobs'[p], ItemsTotal(p)', BytesTotal(p)')
    BY DEF JobsAreSound
  <1>2. CASE Launched(p)
    BY <1>2, JobsAdvance, TotalsStay DEF Advances
  <1>3. CASE ~Launched(p)
    <2>1. jobs'[p] = [QueuedJob EXCEPT !.thread = "spawned"]
      BY <1>1, <1>3, JobSteps DEF SnapshotInv
    <2>2. PlansType' /\ plans'[p].retained
      BY <1>1 DEF TypeOK, PlansType, Launched, StartInv, StartedIffJob
    <2>3. ItemsTotal(p)' \in Nat /\ BytesTotal(p)' \in Nat
      <3>1. plans'[p] \in RetainedPlan
        BY <2>2 DEF PlansType, NoPlan
      <3>2. plans'[p].selected \subseteq Candidates
        BY <3>1 DEF RetainedPlan
      <3>3. Cardinality(plans'[p].selected) \in Nat
        BY <3>2, FS_Subset, FS_CardinalityType
      <3> QED BY <3>3 DEF ItemsTotal, BytesTotal
    <2> QED BY <2>1, <2>3, SpawnedIsSound
  <1> QED BY <1>2, <1>3

(* A job that waits for its start is written by no other command.          *)
LEMMA StartsStayQueued ==
    ASSUME TypeOK, StartInv, StartsAreQueued, [Next]_vars
    PROVE  StartsAreQueued'
  <1> JobsType /\ CallType
    BY TypeParts
  <1> USE DEF StartsAreQueued, At
  <1>1. SUFFICES ASSUME NEW d \in Callers, call'[d].at = "launch"
                 PROVE  jobs'[call'[d].plan] = QueuedJob
    OBVIOUS
  <1>2. ASSUME NEW c \in Callers, CommitStart(c), c = d
        PROVE  jobs'[call'[d].plan] = QueuedJob
    <2>1. call[c].plan \in Plans
      BY <1>2, CallFields DEF CommitStart, At
    <2>2. CASE Return(c)
      BY <1>1, <1>2, <2>2 DEF Return, Idle, CallType
    <2>3. CASE Continue(c, [at |-> "launch", plan |-> call[c].plan])
               /\ jobs' = [jobs EXCEPT ![call[c].plan] = QueuedJob]
      <3>1. call'[d] = [at |-> "launch", plan |-> call[c].plan]
        BY <1>2, <2>3, CallChanged
      <3> QED BY <2>1, <2>3, <3>1 DEF JobsType
    <2> QED BY <1>2, <2>2, <2>3 DEF CommitStart
  <1>3. CASE call'[d] = call[d]
    <2>1. /\ At(d, "launch") /\ call[d].plan \in Plans
          /\ jobs[call[d].plan] = QueuedJob /\ ~Launched(call[d].plan)
      <3>1. call[d].plan \in Plans /\ At(d, "launch") /\ jobs[call[d].plan] = QueuedJob
        BY <1>1, <1>3, CallFields
      <3> QED BY <3>1 DEF QueuedJob, Launched
    <2>2. PICK p \in Plans : p = call[d].plan
      BY <2>1
    <2>3. jobs[p].retained /\ jobs[p].thread = "none"
      BY <2>1, <2>2 DEF QueuedJob
    <2>4. ASSUME NEW c \in Callers, CommitStart(c)
          PROVE  jobs'[p] = jobs[p]
      <3>1. call[c].plan \in Plans
        BY <2>4, CallFields DEF CommitStart
      <3>2. UNCHANGED jobs \/ (call[c].plan # p /\ jobs' = [jobs EXCEPT ![call[c].plan] = QueuedJob])
        BY <2>3, <2>4 DEF CommitStart
      <3> QED BY <3>1, <3>2 DEF JobsType
    <2>5. ASSUME NEW c \in Callers, Launch(c) \/ Withdraw(c)
          PROVE  jobs'[p] = jobs[p]
      <3>1. call[c].plan \in Plans /\ Starting(c)
        BY <2>5, CallFields DEF Launch, Withdraw, Starting
      <3>2. c # d
        <4>0. Idle.at # "launch"
          BY DEF Idle
        <4>1. c = d => call'[d].at # "launch"
          <5> SUFFICES ASSUME c = d PROVE call'[d].at # "launch"
            OBVIOUS
          <5>1. PICK step : Continue(c, step) /\ step.at # "launch"
            <6>1. CASE Return(c)
              BY <4>0, <6>1 DEF Return, Continue
            <6>2. ASSUME NEW q, Continue(c, [at |-> "withdraw", plan |-> q])
                  PROVE  \E step : Continue(c, step) /\ step.at # "launch"
              <7>1. [at |-> "withdraw", plan |-> q].at # "launch"
                OBVIOUS
              <7> QED BY <6>2, <7>1
            <6> QED BY <2>5, <6>1, <6>2 DEF Launch, Withdraw
          <5>2. call'[c] = step
            BY <5>1, CallChanged
          <5> QED BY <5>1, <5>2
        <4> QED BY <1>1, <4>1
      <3>3. call[c].plan # p
        BY <2>1, <2>2, <3>1, <3>2 DEF StartInv, StartsOwnTheirJobs, Starting
      <3>4. \E j : jobs' = [jobs EXCEPT ![call[c].plan] = j]
        BY <2>5 DEF Launch, Withdraw
      <3> QED BY <3>1, <3>3, <3>4 DEF JobsType
    <2>6. ASSUME NEW c \in Callers, MarkCancelling(c)
          PROVE  jobs'[p] = jobs[p]
      <3>1. call[c].plan \in Plans /\ Launched(call[c].plan)
        BY <2>6, CallFields DEF MarkCancelling, StartInv, CancelsOfLaunched
      <3>2. call[c].plan # p
        BY <2>3, <3>1 DEF Launched
      <3>3. \E j : jobs' = [jobs EXCEPT ![call[c].plan] = j]
        BY <2>6 DEF MarkCancelling
      <3> QED BY <3>1, <3>2, <3>3 DEF JobsType
    <2>7. ASSUME NEW c \in Callers, NEW q \in Plans, RequestCancel(c, q)
          PROVE  jobs'[p] = jobs[p]
      BY <2>3, <2>7 DEF RequestCancel, JobsType
    <2>8. ASSUME NEW q \in Plans, Worker(q)
          PROVE  jobs'[p] = jobs[p]
      <3>1. q # p
        BY <2>3, <2>8, WorkerWrites
      <3> QED BY <2>8, <3>1, WorkerWrites, OtherJob
    <2>9. ASSUME UNCHANGED jobs
          PROVE  jobs'[p] = jobs[p]
      BY <2>9
    <2>10. \/ UNCHANGED jobs
           \/ \E c \in Callers : \/ CommitStart(c) \/ Launch(c) \/ Withdraw(c) \/ MarkCancelling(c)
                                 \/ \E q \in Plans : RequestCancel(c, q)
           \/ \E q \in Plans : Worker(q)
      BY DEF Next, Command, CommandSection, StoreStep, vars, OpenPicker, ClosePicker,
             AdmitDestination, SnapshotSelection, CheckPlan, InsertPlan, Preflight
    <2>11. jobs'[p] = jobs[p]
      BY <2>4, <2>5, <2>6, <2>7, <2>8, <2>9, <2>10
    <2> QED BY <1>3, <2>1, <2>2, <2>11
  <1>4. \/ call'[d] = call[d]
        \/ CommitStart(d)
    <2>1. ASSUME NEW c \in Callers, Command(c), c # d
          PROVE  call'[d] = call[d]
      <3>1. \E step : Continue(c, step)
        BY <2>1 DEF Command, CommandSection, OpenPicker, ClosePicker, AdmitDestination,
           SnapshotSelection, CheckPlan, InsertPlan, Preflight, CommitStart, Launch, Withdraw,
           RequestCancel, MarkCancelling, Return, Continue
      <3> QED BY <2>1, <3>1, CallChanged
    <2>2. ASSUME Command(d), ~CommitStart(d)
          PROVE  call'[d] = call[d]
      <3>1. \E step : Continue(d, step) /\ step.at # "launch"
        <4>1. Idle.at # "launch"
          BY DEF Idle
        <4>2. CASE CheckPlan(d)
          <5>1. CASE Return(d)
            BY <4>1, <5>1 DEF Return, Continue
          <5>2. CASE Continue(d, [call[d] EXCEPT !.at = "insertPlan"])
            <6>1. call[d] \in Calls /\ call[d].at = "checkPlan"
              BY <4>2 DEF CheckPlan, At, CallType
            <6>2. [call[d] EXCEPT !.at = "insertPlan"].at # "launch"
              BY <6>1 DEF Calls, Idle
            <6> QED BY <5>2, <6>2
          <5> QED BY <4>2, <5>1, <5>2 DEF CheckPlan
        <4>3. CASE Return(d)
          BY <4>1, <4>3 DEF Return, Continue
        <4>4. ASSUME NEW s \in Scans, \/ OpenPicker(d, s)
                                     \/ \E t \in Destinations : SnapshotSelection(d, s, t)
              PROVE  \E step : Continue(d, step) /\ step.at # "launch"
          <5>1. /\ [at |-> "picker", scan |-> s].at # "launch"
                /\ \A x, y : [at |-> "checkPlan", destination |-> x, snapshot |-> y].at # "launch"
            OBVIOUS
          <5> QED BY <4>4, <5>1 DEF OpenPicker, SnapshotSelection
        <4>5. ASSUME NEW q \in Plans, Preflight(d, q) \/ RequestCancel(d, q)
              PROVE  \E step : Continue(d, step) /\ step.at # "launch"
          BY <4>5 DEF Preflight, RequestCancel
        <4>6. CASE ClosePicker(d)
          BY <4>3, <4>6 DEF ClosePicker
        <4>7. CASE AdmitDestination(d) \/ InsertPlan(d) \/ Launch(d) \/ Withdraw(d)
                   \/ MarkCancelling(d)
          BY <4>3, <4>7 DEF AdmitDestination, InsertPlan, Launch, Withdraw, MarkCancelling
        <4> QED BY <2>2, <4>2, <4>4, <4>5, <4>6, <4>7 DEF Command, CommandSection
      <3> QED BY <1>1, <3>1, CallChanged
    <2>3. StoreStep \/ UNCHANGED vars \/ (\E q \in Plans : Worker(q)) => UNCHANGED call
      BY WorkerWrites DEF StoreStep, vars
    <2> QED BY <2>1, <2>2, <2>3 DEF Next
  <1> QED BY <1>2, <1>3, <1>4

(* The command that asked is between its two writes, or the status shows   *)
(* the request.                                                            *)
LEMMA CancelKeepsSticking ==
    ASSUME TypeOK, StartInv, SnapshotInv, [Next]_vars
    PROVE  CancelSticks'
  <1> JobsType /\ CallType
    BY TypeParts
  <1>1. SUFFICES ASSUME NEW p \in Plans, Launched(p)', jobs'[p].asked,
                        jobs'[p].status \in {"queued", "running"}
                 PROVE  \E c \in Callers : At(c, "cancel")' /\ call'[c].plan = p
    BY DEF CancelSticks
  <1>2. Launched(p)
    <2>1. jobs'[p] # [QueuedJob EXCEPT !.thread = "spawned"]
      BY <1>1 DEF QueuedJob
    <2> QED BY <1>1, <2>1, JobSteps DEF SnapshotInv
  <1>3. jobs[p] \in Job
    BY <1>2, RetainedJobType DEF Launched
  <1>4. CASE \E c \in Callers : call'[c] = [at |-> "cancel", plan |-> p]
    BY <1>4 DEF At
  <1>5. CASE jobs[p].asked /\ jobs[p].status \in {"queued", "running"}
    <2>1. PICK c \in Callers : At(c, "cancel") /\ call[c].plan = p
      BY <1>2, <1>5 DEF SnapshotInv, CancelSticks
    <2>2. CASE call'[c] = call[c]
      BY <2>1, <2>2 DEF At
    <2>3. CASE MarkCancelling(c)
      <3>1. jobs'[p] = [jobs[p] EXCEPT !.status = CancelledStatus(@)]
        BY <2>1, <2>3 DEF MarkCancelling, JobsType
      <3>2. jobs'[p].status = CancelledStatus(jobs[p].status)
        BY <1>3, <3>1, CancellingFields
      <3> QED BY <1>1, <1>5, <3>2 DEF CancelledStatus
    <2>4. call'[c] = call[c] \/ MarkCancelling(c)
      <3>1. ASSUME NEW d \in Callers, Command(d), d # c
            PROVE  call'[c] = call[c]
        <4>1. \E step : Continue(d, step)
          BY <3>1 DEF Command, CommandSection, OpenPicker, ClosePicker, AdmitDestination,
             SnapshotSelection, CheckPlan, InsertPlan, Preflight, CommitStart, Launch, Withdraw,
             RequestCancel, MarkCancelling, Return, Continue
        <4> QED BY <3>1, <4>1, CallChanged
      <3>2. Command(c) => MarkCancelling(c)
        BY <2>1 DEF Command, CommandSection, OpenPicker, ClosePicker, AdmitDestination,
           SnapshotSelection, CheckPlan, InsertPlan, Preflight, CommitStart, Launch, Withdraw,
           RequestCancel, At
      <3>3. StoreStep \/ UNCHANGED vars \/ (\E q \in Plans : Worker(q)) => UNCHANGED call
        BY WorkerWrites DEF StoreStep, vars
      <3> QED BY <3>1, <3>2, <3>3 DEF Next
    <2> QED BY <2>2, <2>3, <2>4
  <1>6. CASE jobs'[p] = jobs[p]
    BY <1>1, <1>5, <1>6
  <1>7. CASE jobs'[p] = [jobs[p] EXCEPT !.status = CancelledStatus(@)]
    <2>1. jobs'[p].status = CancelledStatus(jobs[p].status) /\ jobs'[p].asked = jobs[p].asked
      BY <1>3, <1>7, CancellingFields
    <2> QED BY <1>1, <1>5, <2>1 DEF CancelledStatus
  <1>8. CASE Worker(p)
    <2>1. JobIsSound(jobs[p], ItemsTotal(p), BytesTotal(p))
      BY <1>2 DEF SnapshotInv, JobsAreSound
    <2>2. Follows(jobs[p], jobs'[p]) /\ jobs'[p].asked = jobs[p].asked
      BY <1>2, <1>8, <2>1, WorkerAdvances DEF WorksOn, Advances
    <2>3. jobs[p].status \in {"queued", "running"}
      BY <1>1, <1>3, <2>2, JobFields DEF Follows, LegalTransitions, Statuses, Terminal
    <2> QED BY <1>1, <1>5, <2>2, <2>3
  <1>9. JobMoves(p)
    BY <1>2, JobSteps DEF SnapshotInv
  <1> QED BY <1>4, <1>6, <1>7, <1>8, <1>9 DEF JobMoves

LEMMA SnapshotInit == Init => SnapshotInv
  BY DEF Init, SnapshotInv, JobsAreSound, StartsAreQueued, CancelSticks, Launched, NoJob,
         At, Idle

LEMMA SnapshotStep == IInv /\ SnapshotInv /\ [Next]_vars => SnapshotInv'
  <1> SUFFICES ASSUME IInv, SnapshotInv, [Next]_vars
               PROVE  SnapshotInv'
    OBVIOUS
  <1>1. IInv'
    BY StartInvariantStep
  <1>2. /\ TypeOK /\ StartInv /\ StartsAreQueued
        /\ TypeOK' /\ StartInv'
    BY <1>1 DEF IInv, SnapshotInv
  <1>3. JobsAreSound'
    BY <1>2, JobsStaySound
  <1>4. StartsAreQueued'
    BY <1>2, StartsStayQueued
  <1>5. CancelSticks'
    BY <1>2, CancelKeepsSticking
  <1> QED BY <1>3, <1>4, <1>5 DEF SnapshotInv

LEMMA SnapshotInvariant == Spec => [](IInv /\ SnapshotInv)
  <1>1. Init => IInv /\ SnapshotInv
    BY StartInvariantInit, SnapshotInit
  <1>2. IInv /\ SnapshotInv /\ [Next]_vars => IInv' /\ SnapshotInv'
    BY StartInvariantStep, SnapshotStep
  <1> QED BY <1>1, <1>2, PTL DEF Spec

(* Once cancel_restore has answered, the job is never again shown as       *)
(* queued or running: a worker that begins at that moment does not         *)
(* overwrite the status (run_restore_worker, cancel_restore).              *)
THEOREM CancellationsStick == Spec => []CancelSticks
  <1>1. SnapshotInv => CancelSticks
    BY DEF SnapshotInv
  <1> QED BY <1>1, SnapshotInvariant, PTL

(* Every snapshot of a launched job is one the front end accepts, and its  *)
(* end is the engine's: completed exactly when the engine answered ok, so  *)
(* the counters of JobObserver never disagree with the manifest            *)
(* (commit_engine_success_terminal); cancelled only when the user asked.   *)
THEOREM SnapshotsTellTheTruth == Spec => []SnapshotsAreTrue
  <1>1. IInv /\ SnapshotInv => SnapshotsAreTrue
    <2> SUFFICES ASSUME IInv, SnapshotInv, NEW p \in Plans, Launched(p),
                        NEW j, j = jobs[p], NEW n, n = ItemsTotal(p), NEW b, b = BytesTotal(p)
                 PROVE  /\ Dispositions(j) <= n
                        /\ ShownManifest(j) # NoManifest => ShownManifest(j) <= j.completed
                        /\ j.item # NoItem =>
                              /\ j.item = Dispositions(j) /\ j.item < n
                              /\ j.status \in {"running", "cancelling"}
                        /\ j.status = "queued" => Dispositions(j) = 0 /\ ShownBytes(p) = 0
                        /\ j.status = "completed" =>
                              /\ j.completed = n /\ ShownBytes(p) = b
                              /\ ShownManifest(j) = n
                        /\ j.status \in Terminal <=> j.thread = "ended"
                        /\ j.thread = "ended" =>
                              (j.status = "completed" <=> j.engine.answer = "ok")
                        /\ j.status = "cancelled" => j.asked
      BY DEF SnapshotsAreTrue
    <2> JobsType /\ PlansType
      BY TypeParts DEF IInv
    <2>1. j \in Job /\ n \in Nat /\ b \in Nat
      BY RetainedJobType, ItemsTotalType DEF Launched, IInv, StartInv, StartedIffJob
    <2>2. JobIsSound(j, n, b)
      BY DEF SnapshotInv, JobsAreSound
    <2>3. j.committed \in Nat /\ j.current \in Nat
      BY <2>1, Zenon DEF Job
    <2>4. j.status \in Terminal <=> j.thread = "ended"
      BY <2>1, <2>2, JobFields DEF JobIsSound, Terminal
    <2>5. ShownBytes(p) = IF j.committed + j.current < b THEN j.committed + j.current ELSE b
      BY DEF ShownBytes
    <2>6. j.status = "queued" => j.thread = "spawned"
      BY <2>1, <2>2, JobFields DEF JobIsSound, Terminal
    <2>7. EngineIsSound(j.engine, n, j.asked) /\ j.engine.done \in Nat /\ j.engine.open \in BOOLEAN
      BY <2>1, <2>2, JobFields DEF JobIsSound
    <2>8. Dispositions(j) <= n
      BY <2>1, <2>2, <2>7, JobFields DEF Dispositions, JobIsSound, EngineIsSound
    <2>9. ShownManifest(j) # NoManifest => ShownManifest(j) <= j.completed
      BY <2>1, <2>2, <2>4, JobFields DEF ShownManifest, JobIsSound
    <2>10. j.item # NoItem => /\ j.item = Dispositions(j) /\ j.item < n
                              /\ j.status \in {"running", "cancelling"}
      BY <2>1, <2>2, <2>7, JobFields DEF Dispositions, JobIsSound, EngineIsSound
    <2>11. j.status = "queued" => Dispositions(j) = 0 /\ ShownBytes(p) = 0
      <3>1. j.status = "queued" => /\ j.engine = NoReport /\ j.committed = 0 /\ j.current = 0
                                   /\ j.completed = 0 /\ j.failed = 0 /\ j.cancelled = 0
        BY <2>2, <2>6 DEF JobIsSound, NoReport
      <3> QED BY <2>1, <2>5, <3>1 DEF Dispositions
    <2>12. j.status = "completed" => /\ j.completed = n /\ ShownBytes(p) = b
                                     /\ ShownManifest(j) = n
      <3>1. j.status = "completed" => /\ j.thread = "ended" /\ j.engine.answer = "ok"
        BY <2>2, <2>4 DEF JobIsSound, Terminal
      <3> QED BY <2>1, <2>2, <2>3, <2>5, <2>7, <3>1, JobFields
             DEF JobIsSound, EngineIsSound, ShownManifest, Terminal
    <2>13. /\ j.thread = "ended" => (j.status = "completed" <=> j.engine.answer = "ok")
           /\ j.status = "cancelled" => j.asked
      BY <2>2, <2>4 DEF JobIsSound, Terminal
    <2> QED BY <2>4, <2>8, <2>9, <2>10, <2>11, <2>12, <2>13
  <1> QED BY <1>1, SnapshotInvariant, PTL

(* What the user is shown of a launched job only moves forward and its     *)
(* terminal snapshot is final, whatever cancellation comes late and        *)
(* whatever the worker was about to write: the transitions that            *)
(* parseRestoreJobSnapshot of the front end accepts, but for the bytes.    *)
THEOREM SnapshotsOnlyAdvance == Spec => SnapshotsAdvance
  <1>1. IInv /\ SnapshotInv /\ [Next]_vars =>
           [\A p \in Plans :
               Launched(p) => jobs'[p].retained /\ Follows(jobs[p], jobs'[p])]_vars
    <2> SUFFICES ASSUME IInv, SnapshotInv, [Next]_vars, NEW p \in Plans, Launched(p)
                 PROVE  jobs'[p].retained /\ Follows(jobs[p], jobs'[p])
      OBVIOUS
    <2>1. TypeOK /\ StartInv /\ StartInv'
      BY StartInvariantStep DEF IInv
    <2>2. Launched(p)'
      BY <2>1, LaunchedStays
    <2>3. Advances(jobs[p], jobs'[p], ItemsTotal(p), BytesTotal(p))
      BY <2>1, JobsAdvance
    <2> QED BY <2>2, <2>3 DEF Launched, Advances
  <1> QED BY <1>1, SnapshotInvariant, PTL DEF Spec, SnapshotsAdvance
=============================================================================
