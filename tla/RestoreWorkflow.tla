--------------------------- MODULE RestoreWorkflow ---------------------------
(***************************************************************************)
(* The restore dialog of the front end, useRestoreWorkflow of              *)
(* apps/desktop/src/state/restoreWorkflow.ts with the buttons of           *)
(* RestoreWorkflowDialog.tsx, against the native commands and the sessions *)
(* of SelectionStore.  As in ResultsWorkspace an action is a turn of the   *)
(* event loop: what the user does, a timer, a change of the scan or of the *)
(* selection with the effects it runs, or the answer of a native call with *)
(* all that follows up to the next await.                                  *)
(*                                                                         *)
(* The dialog is modal.  The scan can still change under it, when a        *)
(* refresh of the inventory that was begun before the scan ends after it,  *)
(* and so can the selection, by one update that waited in the queue of     *)
(* ResultsWorkspace when the dialog opened.                                *)
(*                                                                         *)
(* state.selectionRevision equals that of the selection shown after every  *)
(* turn, and is no variable.  RestoreCoordinator has the commands in       *)
(* detail; here each is one step.  Destinations stand for their ids.       *)
(***************************************************************************)
EXTENDS SelectionStore, SequencesExt, Lists

CONSTANTS
    Destinations,       \* destination ids the picker may give
    BestEffort,         \* the candidates that can only be recovered in part
    Plans,              \* plan ids, and those of their jobs
    MaxPollFailures,    \* MAX_CONSECUTIVE_INTERNAL_POLL_FAILURES
    MaxFaults,          \* bound on the calls that fail, other than polls
    MaxGenerations,     \* bound on the dialogs and scans the user leaves
    MaxIntents          \* bound on cancellations and openings of one dialog

ASSUME WorkflowAssumption ==
    /\ BestEffort \subseteq Candidates /\ MaxPollFailures \in Nat \ {0}
    /\ MaxFaults \in Nat /\ MaxGenerations \in Nat /\ MaxIntents \in Nat

(* No id is the null of the hook.                                          *)
None == "none"

ASSUME IdAssumption == None \notin Scans \cup Destinations \cup Plans

VARIABLES
    plans,      \* the plans the coordinator retains
    jobs,       \* the status of the job of each plan
    shown,      \* the scan and the selection the application shows
    update,     \* the selection update that is under way
    ui,         \* stateRef.current
    refs,       \* the other refs of the hook
    calls,      \* the native calls in flight, in the order they were sent
    faults,     \* how many calls went wrong, other than polls
    agreed      \* what the user saw when consenting to partial files

nativeVars == <<storeVars, plans, jobs>>
envVars == <<shown, update>>
vars == <<nativeVars, envVars, ui, refs, calls, faults, agreed>>

-----------------------------------------------------------------------------
(* Data.                                                                   *)

(* What the workflow tells apart: queued is running, and a job that failed *)
(* or was cancelled has stopped.                                           *)
Terminal == {"completed", "stopped"}

NoScan == [scan |-> None]
Scan(s) == [scan |-> s]
Absent == [present |-> FALSE]
NothingShown == [scan |-> NoScan, selection |-> Absent]

NoJob == [plan |-> None, status |-> None]
NoPlan == [scan |-> None]
NoConsent == [scan |-> None]

InitialUi ==
    [phase |-> "idle", destination |-> None, policy |-> "completeOnly",
     consent |-> FALSE, plan |-> None, job |-> NoJob, operation |-> "idle",
     cancelRequested |-> FALSE, error |-> None]

(* A call, or an operation of the queue, which is a call to be.            *)
Call(r, kind, subject) ==
    [kind |-> kind, generation |-> r.generation, intent |-> r.intent,
     subject |-> subject, at |-> "sent", answer |-> None]

Init ==
    /\ StoreInit
    /\ plans = [p \in Plans |-> NoPlan] /\ jobs = [p \in Plans |-> None]
    /\ shown = NothingShown /\ update = None
    /\ ui = InitialUi
    /\ refs = [generation |-> 0, intent |-> 0, busy |-> {}, queue |-> <<>>,
               running |-> None, pollQueued |-> FALSE, cancelPending |-> FALSE,
               openPending |-> FALSE, failures |-> 0, timer |-> FALSE]
    /\ calls = <<>> /\ faults = 0 /\ agreed = NoConsent

-----------------------------------------------------------------------------
(* The queue of operations: polls, cancellations and openings of a job,    *)
(* one at a time.                                                          *)

IsPoll(op) == op.kind = "poll"

(* enqueueOperation: a poll is dropped while another one waits or runs,    *)
(* and a cancellation takes the place of the waiting one.                  *)
Enqueued(r, op) ==
    CASE op.kind = "poll" ->
           IF r.pollQueued \/ r.running = "poll" THEN r
           ELSE [r EXCEPT !.queue = Append(@, op), !.pollQueued = TRUE]
      [] op.kind = "cancel" ->
           LET kept == Filter(r.queue, {o \in Range(r.queue) : ~IsPoll(o)})
           IN  [r EXCEPT !.queue = Append(kept, op),
                         !.pollQueued = @ /\ kept = r.queue]
      [] OTHER -> [r EXCEPT !.queue = Append(@, op)]

(* pumpOperations.  A poll that waits is current: what makes it stale      *)
(* takes it out of the queue.                                              *)
Pump(u, r, sent) ==
    IF r.running # None \/ r.queue = <<>>
    THEN ui' = u /\ refs' = r /\ calls' = sent
    ELSE LET op == Head(r.queue)
         IN  /\ ui' = IF IsPoll(op) THEN [u EXCEPT !.operation = "polling"] ELSE u
             /\ refs' = [r EXCEPT !.queue = Tail(@), !.running = op.kind]
             /\ calls' = Append(sent, op)

(* schedulePoll, clearPollTimer included.                                  *)
Scheduled(u, r) ==
    [r EXCEPT !.timer = /\ u.phase = "active" /\ u.job.status \notin Terminal
                        /\ ~r.cancelPending]

(* clearOperations in a new generation; what runs goes on.                 *)
Renewed(r) ==
    [r EXCEPT !.generation = @ + 1, !.intent = 0, !.queue = <<>>,
              !.pollQueued = FALSE, !.cancelPending = FALSE,
              !.openPending = FALSE, !.failures = 0, !.timer = FALSE]

(* The timer is cleared with all that would make its poll another job's.   *)
PollTimer ==
    /\ refs.timer
    /\ Pump(ui, Enqueued([refs EXCEPT !.timer = FALSE],
                         Call(refs, "poll", ui.job.plan)), calls)
    /\ UNCHANGED <<nativeVars, envVars, faults, agreed>>

-----------------------------------------------------------------------------
(* What is shown around the dialog.                                        *)

(* The effect of another scan.                                             *)
ScanEffect ==
    /\ ui' = InitialUi /\ refs' = [Renewed(refs) EXCEPT !.busy = {}]
    /\ agreed' = NoConsent
    /\ UNCHANGED <<calls, faults>>

HideScan ==
    /\ shown.scan # NoScan
    /\ shown' = NothingShown /\ update' = None
    /\ ScanEffect
    /\ UNCHANGED nativeVars

ShowScan(s) ==
    /\ shown.scan = NoScan /\ refs.generation < MaxGenerations
    /\ StoreSession(s)
    /\ shown' = [NothingShown EXCEPT !.scan = Scan(s)] /\ update' = None
    /\ ScanEffect
    /\ UNCHANGED <<plans, jobs>>

(* Bug: the consent outlives the selection it was given for.               *)
SelectionEffectBug(u) ==
    IF u.phase \in {"setup", "planning", "review"}
    THEN [u EXCEPT !.phase = "setup", !.plan = None, !.error = None]
    ELSE u

(* The effect of another revision of the selection; in these phases there  *)
(* is a destination.                                                       *)
SelectionEffect(u) ==
    IF u.phase \in {"setup", "planning", "review"}
    THEN [u EXCEPT !.phase = "setup", !.policy = "completeOnly",
                   !.consent = FALSE, !.plan = None, !.job = NoJob,
                   !.error = None]
    ELSE u

(* The page tells the selection: the first one, and that after an update.  *)
ShowSelection ==
    LET s == shown.scan.scan
    IN  /\ shown.scan # NoScan /\ Kept(s)
        /\ ~shown.selection.present \/ update = "taken"
        /\ shown' = [shown EXCEPT !.selection =
                        [present |-> TRUE, revision |-> scans[s].revision,
                         selected |-> scans[s].selected]]
        /\ update' = None
        /\ ui' = SelectionEffect(ui)
        /\ UNCHANGED <<nativeVars, refs, calls, faults, agreed>>

(* A click on the selection, while no dialog hides it.                     *)
ClickSelection ==
    /\ ui.phase = "idle" /\ shown.selection.present /\ update = None
    /\ update' = "queued"
    /\ UNCHANGED <<nativeVars, shown, ui, refs, calls, faults, agreed>>

TakeUpdate(chosen) ==
    /\ update = "queued" /\ ChangeSelection(shown.scan.scan, chosen)
    /\ update' = "taken"
    /\ UNCHANGED <<plans, jobs, shown, ui, refs, calls, faults, agreed>>

-----------------------------------------------------------------------------
(* The user.                                                               *)

Selected == shown.selection.present /\ shown.selection.selected # {}

Sent(kind, subject) == calls' = Append(calls, Call(refs, kind, subject))
Busy(what) == refs' = [refs EXCEPT !.busy = @ \cup {what}]

(* chooseDestination: the button beside the selection, that of the setup,  *)
(* and that of a destination that was refused.                             *)
ChooseDestination ==
    /\ shown.scan # NoScan /\ Selected /\ "destination" \notin refs.busy
    /\ \/ ui.phase \in {"idle", "setup"}
       \/ ui.phase = "error" /\ ui.error = "destination"
    /\ ui' = [InitialUi EXCEPT !.phase = "selectingDestination",
                               !.operation = ui.operation]
    /\ Busy("destination") /\ Sent("destination", None)
    /\ agreed' = NoConsent
    /\ UNCHANGED <<nativeVars, envVars, faults>>

(* The setup, which an error in it leaves open.                            *)
InSetup ==
    /\ ui.destination # None
    /\ ui.phase = "setup" \/ (ui.phase = "error" /\ ui.error = "setup")

(* setPartialFilePolicy: a radio button, so the other policy.              *)
SetPolicy(policy) ==
    /\ InSetup /\ policy # ui.policy
    /\ ui' = [ui EXCEPT !.phase = "setup", !.policy = policy,
                        !.consent = @ /\ policy = "zeroFillAndMap",
                        !.plan = None, !.error = None]
    /\ UNCHANGED <<nativeVars, envVars, refs, calls, faults, agreed>>

(* setBestEffortConsent.                                                   *)
SetConsent ==
    /\ InSetup /\ ui.policy = "zeroFillAndMap"
    /\ ui' = [ui EXCEPT !.phase = "setup", !.consent = ~@, !.plan = None,
                        !.error = None]
    /\ agreed' = IF ui.consent THEN NoConsent
                 ELSE [scan |-> shown.scan.scan, destination |-> ui.destination,
                       revision |-> shown.selection.revision]
    /\ UNCHANGED <<nativeVars, envVars, refs, calls, faults>>

NeedsConsent(selected) == selected \cap BestEffort # {}

(* createPlan; its button is disabled in the cases it refuses by itself.   *)
CreatePlan ==
    /\ ui.phase = "setup" /\ ui.destination # None /\ Selected
    /\ NeedsConsent(shown.selection.selected) =>
          ui.policy = "zeroFillAndMap" /\ ui.consent
    /\ "plan" \notin refs.busy
    /\ ui' = [ui EXCEPT !.phase = "planning", !.plan = None, !.error = None]
    /\ Busy("plan")
    /\ Sent("plan", [scan |-> shown.scan.scan, destination |-> ui.destination,
                     revision |-> shown.selection.revision, policy |-> ui.policy])
    /\ UNCHANGED <<nativeVars, envVars, faults, agreed>>

(* start; a plan under review is of the revision shown.                    *)
Start ==
    /\ ui.phase = "review" /\ "start" \notin refs.busy
    /\ ui' = [ui EXCEPT !.phase = "starting", !.error = None]
    /\ Busy("start") /\ Sent("start", ui.plan)
    /\ UNCHANGED <<nativeVars, envVars, faults, agreed>>

(* cancel.                                                                 *)
Cancel ==
    LET r == [refs EXCEPT !.cancelPending = TRUE, !.timer = FALSE, !.intent = @ + 1]
    IN  /\ ui.phase = "active" /\ ui.job.status \notin Terminal
        /\ ~refs.cancelPending /\ ~ui.cancelRequested /\ refs.intent < MaxIntents
        /\ Pump([ui EXCEPT !.operation = "cancelRequest", !.error = None],
                Enqueued(r, Call(r, "cancel", ui.job.plan)), calls)
        /\ UNCHANGED <<nativeVars, envVars, faults, agreed>>

(* openDestination.                                                        *)
OpenDestination ==
    LET r == [refs EXCEPT !.openPending = TRUE, !.intent = @ + 1]
    IN  /\ ui.phase = "finished" /\ ui.job.status = "completed"
        /\ ~refs.openPending /\ ui.operation = "idle" /\ refs.intent < MaxIntents
        /\ Pump([ui EXCEPT !.operation = "opening", !.error = None],
                Enqueued(r, Call(r, "open", ui.job.plan)), calls)
        /\ UNCHANGED <<nativeVars, envVars, faults, agreed>>

(* close, which the dialog offers unless it is busy.                       *)
Close ==
    /\ ui.phase \in {"setup", "review", "finished", "trackingLost", "error"}
    /\ ui.operation # "opening"
    /\ ui.phase = "trackingLost" \/ ui.job = NoJob \/ ui.job.status \in Terminal
    /\ refs.generation < MaxGenerations
    /\ ui' = InitialUi /\ refs' = Renewed(refs) /\ agreed' = NoConsent
    /\ UNCHANGED <<nativeVars, envVars, calls, faults>>

-----------------------------------------------------------------------------
(* The native side.                                                        *)

(* Bug: get_restore_job becomes an asynchronous command.                   *)
SynchronousBug == {"destination", "cancel", "open"}

(* The commands that are no async fn: Tauri runs them on its main thread   *)
(* and answers one before it takes the next.                               *)
Synchronous == {"destination", "poll", "cancel", "open"}

(* Every earlier synchronous call has been answered.                       *)
InOrder(i) ==
    calls[i].kind \in Synchronous =>
       \A j \in 1 .. i - 1 : calls[j].kind \notin Synchronous

Ok(value) == [ok |-> TRUE, value |-> value]
Error(code) == [ok |-> FALSE, code |-> code]

(* What the front end tells apart: of a command the errors of the setup    *)
(* and of the destination, of an operation RESTORE_INTERNAL, and others.   *)
(* A lost answer is RESTORE_INTERNAL.                                      *)
Code(kind) ==
    IF kind \in {"poll", "cancel", "open"} THEN {"internal", "other"}
    ELSE {"destination", "other"}
Lost(kind) == IF kind = "cancel" THEN "internal" ELSE "other"

FreePlans == {p \in Plans : plans[p] = NoPlan}
FreePlan == CHOOSE p \in FreePlans : TRUE

(* The selection is still that of this scan and revision.                  *)
Holds(request) == Kept(request.scan) /\ scans[request.scan].revision = request.revision

CanStart(p) == Holds(plans[p]) /\ jobs[p] = None

StatusAfterCancel(status) ==
    IF status = "running" THEN "cancelling" ELSE status

Answers(c) ==
    CASE c.kind = "destination" -> {Ok(d) : d \in Destinations \cup {None}}
      [] c.kind = "plan" ->
           {IF ~Holds(c.subject) THEN Error("setup")
            ELSE IF FreePlans = {} THEN Error("other") ELSE Ok(FreePlan)}
      [] c.kind = "start" ->
           {IF CanStart(c.subject) THEN Ok("running") ELSE Error("setup")}
      [] c.kind = "poll" -> {Ok(jobs[c.subject])}
      [] c.kind = "cancel" -> {Ok(StatusAfterCancel(jobs[c.subject]))}
      [] c.kind = "open" -> {Ok(None)}

Execute(c) ==
    /\ plans' = IF c.kind = "plan" /\ Holds(c.subject) /\ FreePlans # {}
                THEN [plans EXCEPT ![FreePlan] = c.subject] ELSE plans
    /\ jobs' = CASE c.kind = "start" /\ CanStart(c.subject) ->
                      [jobs EXCEPT ![c.subject] = "running"]
                 [] c.kind = "cancel" ->
                      [jobs EXCEPT ![c.subject] = StatusAfterCancel(@)]
                 [] OTHER -> jobs
    /\ UNCHANGED storeVars

Answer(i, answer) ==
    calls' = [calls EXCEPT ![i].at = "answered", ![i].answer = answer]

(* A command is carried out; or it fails, or its answer is lost.           *)
NativeCommand(kind) ==
    \E i \in DOMAIN calls :
       /\ calls[i].kind = kind /\ calls[i].at = "sent" /\ InOrder(i)
       /\ \/ /\ Execute(calls[i])
             /\ \E a \in Answers(calls[i]) : Answer(i, a)
             /\ UNCHANGED faults
          \/ /\ \/ kind = "poll" /\ UNCHANGED faults
                \/ kind # "poll" /\ faults < MaxFaults /\ faults' = faults + 1
             /\ \E code \in Code(kind) : Answer(i, Error(code))
             /\ UNCHANGED nativeVars
          \/ /\ faults < MaxFaults /\ faults' = faults + 1
             /\ kind \in {"plan", "start", "cancel"}
             /\ Execute(calls[i]) /\ Answer(i, Error(Lost(kind)))
       /\ UNCHANGED <<envVars, ui, refs, agreed>>

(* A worker ends.                                                          *)
JobStep(p) ==
    /\ jobs[p] \in {"running", "cancelling"}
    /\ \E status \in Terminal : jobs' = [jobs EXCEPT ![p] = status]
    /\ UNCHANGED <<storeVars, plans, envVars, ui, refs, calls, faults, agreed>>

-----------------------------------------------------------------------------
(* The answers.                                                            *)

(* failWorkflow.                                                           *)
Failed(code) == [ui EXCEPT !.phase = "error", !.operation = "idle", !.error = code]
Quiet(r) == [r EXCEPT !.timer = FALSE, !.failures = 0]

(* The turn of the answer to call i: what it makes of a current answer,    *)
(* and that none of its kind is in flight any more.                        *)
Settle(i, current, u) ==
    LET answer == calls[i].answer
        r == [refs EXCEPT !.busy = @ \ {calls[i].kind}]
    IN  /\ calls' = RemoveAt(calls, i)
        /\ ui' = IF ~current THEN ui ELSE IF answer.ok THEN u ELSE Failed(answer.code)
        /\ refs' = IF ~current THEN r ELSE
                   IF answer.ok THEN Scheduled(u, r) ELSE Quiet(r)
        /\ UNCHANGED <<nativeVars, envVars, faults, agreed>>

Answered(i, kind) == calls[i].kind = kind /\ calls[i].at = "answered" /\ InOrder(i)

OfThisGeneration(i) == calls[i].generation = refs.generation

SettleDestination ==
    \E i \in DOMAIN calls :
       /\ Answered(i, "destination")
       /\ Settle(i, OfThisGeneration(i),
                 IF calls[i].answer.value = None THEN InitialUi
                 ELSE [ui EXCEPT !.phase = "setup", !.error = None,
                                 !.destination = calls[i].answer.value])

PlanIsCurrent(i) ==
    /\ OfThisGeneration(i)
    /\ shown.selection.revision = calls[i].subject.revision

SettlePlan ==
    \E i \in DOMAIN calls :
       /\ Answered(i, "plan")
       /\ Settle(i, PlanIsCurrent(i),
                 [ui EXCEPT !.phase = "review", !.error = None,
                            !.plan = calls[i].answer.value])

(* applyNativeJob.                                                         *)
Shows(status, plan, cancelConfirmed) ==
    [ui EXCEPT !.phase = IF status \in Terminal THEN "finished" ELSE "active",
               !.job = [plan |-> plan, status |-> status], !.operation = "idle",
               !.cancelRequested = @ \/ cancelConfirmed, !.error = None]

SettleStart ==
    \E i \in DOMAIN calls :
       /\ Answered(i, "start")
       /\ Settle(i, OfThisGeneration(i),
                 Shows(calls[i].answer.value, calls[i].subject, FALSE))

(* Bug: an answer that a cancellation has superseded counts.               *)
OperationIsCurrentBug(i) == OfThisGeneration(i)

OperationIsCurrent(i) == OfThisGeneration(i) /\ calls[i].intent = refs.intent

(* The end of operation i in state u, and the next one.                    *)
EndOperation(i, u, r) ==
    /\ Pump(u, [r EXCEPT !.running = None, !.pollQueued = @ /\ calls[i].kind # "poll"],
            RemoveAt(calls, i))
    /\ UNCHANGED <<nativeVars, envVars, faults, agreed>>

(* A snapshot.                                                             *)
SnapshotArrives(i, r) ==
    LET u == Shows(calls[i].answer.value, calls[i].subject, calls[i].kind = "cancel")
    IN  EndOperation(i, u, Scheduled(u, [r EXCEPT !.failures = 0]))

(* loseJobTracking.                                                        *)
LoseJob(i, r, code) ==
    EndOperation(i, [ui EXCEPT !.phase = "trackingLost", !.operation = "idle",
                               !.error = code],
                 [r EXCEPT !.timer = FALSE, !.cancelPending = FALSE])

(* failJobOperation: some failed polls are followed by another one.        *)
JobOperationFails(i, r, code) ==
    LET failures == IF calls[i].kind = "poll" THEN r.failures + 1 ELSE r.failures
        counted == [r EXCEPT !.failures = failures]
        u == [ui EXCEPT !.phase = "active", !.operation = "idle", !.error = code]
    IN  IF ui.job.status \in Terminal THEN EndOperation(i, Failed(code), Quiet(r))
        ELSE IF code # "internal" THEN LoseJob(i, r, code)
        ELSE IF calls[i].kind = "poll" /\ failures >= MaxPollFailures
        THEN LoseJob(i, counted, code)
        ELSE EndOperation(i, u, Scheduled(u, counted))

(* The answer to a poll or a cancellation.                                 *)
SettleOperation(kind, r) ==
    \E i \in DOMAIN calls :
       /\ Answered(i, kind)
       /\ IF ~OperationIsCurrent(i) THEN EndOperation(i, ui, r)
          ELSE IF calls[i].answer.ok THEN SnapshotArrives(i, r)
          ELSE JobOperationFails(i, r, calls[i].answer.code)

SettlePoll == SettleOperation("poll", refs)
SettleCancel == SettleOperation("cancel", [refs EXCEPT !.cancelPending = FALSE])

SettleOpen ==
    \E i \in DOMAIN calls :
       /\ Answered(i, "open")
       /\ EndOperation(i, IF ~OperationIsCurrent(i) THEN ui ELSE
                          [ui EXCEPT !.operation = "idle",
                                     !.error = IF calls[i].answer.ok THEN None
                                               ELSE calls[i].answer.code],
                       [refs EXCEPT !.openPending = FALSE])

-----------------------------------------------------------------------------

Environment ==
    \/ HideScan \/ \E s \in Scans : ShowScan(s)
    \/ ShowSelection \/ ClickSelection
    \/ \E chosen \in SUBSET Candidates : TakeUpdate(chosen)

User ==
    \/ ChooseDestination \/ SetConsent \/ CreatePlan
    \/ \E policy \in {"completeOnly", "zeroFillAndMap"} : SetPolicy(policy)
    \/ Start \/ Cancel \/ OpenDestination \/ Close

Commands == {"destination", "plan", "start", "poll", "cancel", "open"}

Settled ==
    \/ SettleDestination \/ SettlePlan \/ SettleStart
    \/ SettlePoll \/ SettleCancel \/ SettleOpen

Next ==
    \/ Environment \/ User \/ PollTimer \/ Settled
    \/ \E kind \in Commands : NativeCommand(kind)
    \/ \E p \in Plans : JobStep(p)

Spec == Init /\ [][Next]_vars

(* A command that has no picker answers, answers are received, the timer   *)
(* fires and a worker goes on.  The user does nothing but what he likes.   *)
FairSpec ==
    /\ Spec
    /\ \A kind \in Commands \ {"destination"} : WF_vars(NativeCommand(kind))
    /\ WF_vars(SettlePlan) /\ WF_vars(SettleStart) /\ WF_vars(SettlePoll)
    /\ WF_vars(SettleCancel) /\ WF_vars(SettleOpen)
    /\ WF_vars(PollTimer)
    /\ \A p \in Plans : WF_vars(JobStep(p))

-----------------------------------------------------------------------------
(* Properties.                                                             *)

(* What the user reviews is what was asked for, on every way back and      *)
(* forth: a plan of the scan, the selection, the destination and the       *)
(* policy that are shown, and if it has partial files, the consent was     *)
(* given for this selection and this destination.                          *)
ReviewIsAsAgreed ==
    ui.phase = "review" =>
       LET request == plans[ui.plan]
       IN  /\ request = [scan |-> shown.scan.scan, destination |-> ui.destination,
                         revision |-> shown.selection.revision,
                         policy |-> ui.policy]
           /\ NeedsConsent(shown.selection.selected) =>
                 /\ request.policy = "zeroFillAndMap"
                 /\ agreed = [scan |-> request.scan, revision |-> request.revision,
                              destination |-> request.destination]

ShownJob == ui.job # NoJob
Forward == [running |-> 0, cancelling |-> 1, completed |-> 2, stopped |-> 2]

(* From the start to the end of a dialog the job shown is the one that was *)
(* reviewed, and only moves forward; what is shown as its end is its end,  *)
(* and a job that was lost stays lost: no late answer of an earlier scan,  *)
(* of an earlier dialog or of a superseded poll shows through.             *)
DialogFollowsItsJob ==
    [][/\ ShownJob' => ui'.job.plan = ui'.plan /\ ui'.phase # "idle"
       /\ ui'.phase = "finished" => ui'.job.status = jobs'[ui'.plan]
       /\ ShownJob /\ ShownJob' /\ shown.scan = shown'.scan =>
             /\ ui.job.plan = ui'.job.plan
             /\ Forward[ui.job.status] <= Forward[ui'.job.status]
       /\ ui.phase \in {"trackingLost", "finished"} =>
             ui'.phase \in {ui.phase, "idle"}]_vars

(* A plan, a start and a job are waited for until they end, whatever fails *)
(* or is cancelled in between: the user, who cannot close the dialog, is   *)
(* never left with a job that nobody asks about any more.                  *)
JobIsFollowed ==
    LET waits == ui.phase \in {"planning", "starting", "active"}
    IN  waits ~> ~waits
=============================================================================
