-------------------------- MODULE ResultsWorkspace --------------------------
(***************************************************************************)
(* The results view of the front end, useResultsWorkspace of               *)
(* apps/desktop/src/state/resultsWorkspace.ts, against the native sessions *)
(* of ResultsSession.  A turn of the JavaScript event loop is one action:  *)
(* what the user does, or the end of a native call, with everything that   *)
(* runs before the next await, the pump of the task queue included.  One   *)
(* native call is in flight at a time; in between the user goes on.        *)
(*                                                                         *)
(* The hook lives as long as the application.  requestRevision and         *)
(* intentRevisionRef always equal query.revision; generationRef changes    *)
(* exactly when the scan does, and a scan is shown once, so that the scan  *)
(* stands for the generation.  Inputs are reduced to those of Operations.  *)
(***************************************************************************)
EXTENDS ResultsSession

CONSTANTS
    MaxCachedPages,     \* MAX_CACHED_PAGES
    Operations,         \* what the user does to the selection
    MaxIntents,         \* bound on the queries the user asks for
    InputErrors,        \* when the user enters what is refused locally
    CallsFail           \* whether a native call, or its answer, can get lost

ASSUME WorkspaceAssumption ==
    /\ "none" \notin Scans
    /\ \E f \in DOMAIN Filters : Filters[f] = Candidates
    /\ DOMAIN Ranking # {}
    /\ MaxCachedPages \in Nat \ {0} /\ MaxIntents \in Nat
    /\ Operations \subseteq Operation
    /\ InputErrors \subseteq {"loading", "ready", "error"} /\ CallsFail \in BOOLEAN

VARIABLES
    ui,         \* stateRef.current
    queue,      \* tasksRef.current
    flight,     \* the running task and its native call
    untold      \* whether an update took effect and its answer got lost

uiVars == <<ui, queue, flight>>
vars == <<sessionVars, uiVars, untold>>

-----------------------------------------------------------------------------
(* Data.                                                                   *)

NoScan == [scan |-> "none"]
Scan(s) == [scan |-> s]

Absent == [present |-> FALSE]

InitialQuery == [filter |-> CHOOSE f \in DOMAIN Filters : Filters[f] = Candidates,
                 selectedOnly |-> FALSE, revision |-> 0]
InitialSort  == CHOOSE sort \in DOMAIN Ranking : TRUE

InitialUi(scan) ==
    [phase |-> IF scan = NoScan THEN "idle" ELSE "loading", scan |-> scan,
     query |-> InitialQuery, sort |-> InitialSort, index |-> 0,
     history |-> <<FirstPage>>, cache |-> <<>>, page |-> Absent,
     selection |-> Absent, updating |-> FALSE, error |-> "none"]

Idle == [at |-> "idle"]

PageTask(u, kind, cursor, index, history) ==
    [kind |-> kind, scan |-> u.scan, query |-> u.query, sort |-> u.sort,
     cursor |-> cursor, index |-> index, history |-> history]

SelectionTask(u, operation) ==
    [kind |-> "selection", scan |-> u.scan, operation |-> operation]

FreshQuery(u) == PageTask(u, "query", FirstPage, 0, <<FirstPage>>)

Init ==
    /\ SessionInit
    /\ ui = InitialUi(NoScan) /\ queue = <<>> /\ flight = Idle
    /\ untold = FALSE

-----------------------------------------------------------------------------
(* The queue.                                                              *)

(* enqueueTask: a query replaces every waiting page, a page a waiting page. *)
Enqueued(tasks, task) ==
    LET dropped == IF task.kind = "query" THEN {"query", "page"} ELSE
                   IF task.kind = "page"  THEN {"page"} ELSE {}
        kept == {t \in Range(tasks) : t.kind \notin dropped}
    IN  Append(Filter(tasks, kept), task)

PageCall(task) == [call |-> "page", query |-> task.query, sort |-> task.sort,
                   cursor |-> task.cursor]

(* runSelectionTask takes the query and the revision when it runs.         *)
UpdateCall(u, task) ==
    [call |-> "update", query |-> u.page.value.query,
     operation |-> task.operation, expected |-> u.selection.value.revision]

(* Nothing is shown that the operation could be meant for.                 *)
Pointless(u, task) ==
    task.kind = "selection" /\ ~(u.page.present /\ u.selection.present)

Started(u, task) ==
    IF task.kind = "selection"
    THEN [at |-> "sent", task |-> task, call |-> UpdateCall(u, task),
          origin |-> u.page.value.cursor]
    ELSE [at |-> "sent", task |-> task, call |-> PageCall(task),
          origin |-> FirstPage]

(* pump, when no task is running: pointless selections at the head of the  *)
(* queue are dropped, and the next task starts.                            *)
Pump(u, tasks) ==
    LET useful == {i \in DOMAIN tasks : ~Pointless(u, tasks[i])}
    IN  /\ ui' = IF 1 \in DOMAIN tasks \ useful
                 THEN [u EXCEPT !.updating = FALSE] ELSE u
        /\ IF useful = {}
           THEN queue' = <<>> /\ flight' = Idle
           ELSE /\ queue' = SubSeq(tasks, Min(useful) + 1, Len(tasks))
                /\ flight' = Started(u, tasks[Min(useful)])

(* A turn of the user's that leaves the state u and adds these tasks.      *)
Turn(u, tasks) ==
    IF flight = Idle THEN Pump(u, tasks)
                     ELSE ui' = u /\ queue' = tasks /\ UNCHANGED flight

-----------------------------------------------------------------------------
(* The scan that is shown.                                                 *)

(* A new scan begins and nothing is shown.                                 *)
HideScan ==
    /\ ui.scan # NoScan
    /\ Turn(InitialUi(NoScan), <<>>)
    /\ UNCHANGED <<sessionVars, untold>>

(* It ends, and its results are shown.                                     *)
ShowScan(s) ==
    /\ ui.scan = NoScan
    /\ StoreSession(s)
    /\ LET u == InitialUi(Scan(s)) IN Turn(u, Enqueued(queue, FreshQuery(u)))
    /\ UNCHANGED untold

-----------------------------------------------------------------------------
(* Queries and pages.                                                      *)

(* scheduleIntent, for every control that changes the query or the sort    *)
(* and for retry.                                                          *)
ScheduleIntent(filter, selectedOnly, sort) ==
    /\ ui.phase # "idle" /\ ui.query.revision < MaxIntents
    /\ LET u == [ui EXCEPT
                   !.phase = "loading", !.index = 0, !.history = <<FirstPage>>,
                   !.query = [filter |-> filter, selectedOnly |-> selectedOnly,
                              revision |-> ui.query.revision + 1],
                   !.sort = sort, !.cache = <<>>, !.page = Absent,
                   !.error = "none"]
       IN  Turn(u, Enqueued(queue, FreshQuery(u)))
    /\ UNCHANGED <<sessionVars, untold>>

(* recordLocalQueryError: a search text or a score range is refused.       *)
RefuseInput ==
    /\ ui.scan # NoScan /\ ui.phase \in InputErrors
    /\ ui' = [ui EXCEPT !.phase = "error", !.error = "queryInvalid"]
    /\ UNCHANGED <<sessionVars, queue, flight, untold>>

Cached(u, cursor) ==
    {i \in DOMAIN u.cache : /\ u.cache[i].cursor = cursor
                            /\ u.cache[i].query.revision = u.query.revision}

(* touchPage: the page becomes the last, and only the last ones are kept.  *)
Touched(cache, page) ==
    LET others == {p \in Range(cache) : \/ p.query.revision # page.query.revision
                                        \/ p.cursor # page.cursor}
        all == Append(Filter(cache, others), page)
        first == Len(all) - MaxCachedPages + 1
    IN  SubSeq(all, IF first > 1 THEN first ELSE 1, Len(all))

(* activatePage, and the same for the first page in previousPage.          *)
Activate(cursor, index, history) ==
    IF Cached(ui, cursor) # {}
    THEN LET page == ui.cache[CHOOSE i \in Cached(ui, cursor) : TRUE]
         IN  /\ ui' = [ui EXCEPT !.index = index, !.history = history,
                                 !.cache = Touched(@, page),
                                 !.page = [present |-> TRUE, value |-> page],
                                 !.error = IF cursor = FirstPage THEN @ ELSE "none"]
             /\ UNCHANGED <<queue, flight>>
    ELSE LET task == PageTask(ui, "page", cursor, index, history)
         IN  Turn([ui EXCEPT !.phase = "loading", !.error = "none"],
                  Enqueued(queue, task))

Navigable == ui.phase = "ready" /\ ~ui.updating /\ ui.page.present

NextPage ==
    /\ Navigable /\ ui.page.value.next # FirstPage
    /\ LET cursor == ui.page.value.next
       IN  Activate(cursor, ui.index + 1,
                    Append(SubSeq(ui.history, 1, ui.index + 1), cursor))
    /\ UNCHANGED <<sessionVars, untold>>

PreviousPage ==
    /\ Navigable /\ ui.index > 0
    /\ Activate(ui.history[ui.index], ui.index - 1, ui.history)
    /\ UNCHANGED <<sessionVars, untold>>

-----------------------------------------------------------------------------
(* enqueueSelection.                                                       *)

ClickSelection(operation) ==
    /\ ui.page.present /\ ui.selection.present
    /\ ui.phase # "loading" /\ ~ui.updating
    /\ Turn([ui EXCEPT !.updating = TRUE, !.error = "none"],
            Enqueued(queue, SelectionTask(ui, operation)))
    /\ UNCHANGED <<sessionVars, untold>>

-----------------------------------------------------------------------------
(* The native side takes the call, or the call gets lost, or its answer    *)
(* does.                                                                   *)

Answered(answer) ==
    flight' = [at |-> "answered", task |-> flight.task, call |-> flight.call,
               origin |-> flight.origin, answer |-> answer]

Execute(s, call) ==
    IF call.call = "page"
    THEN QueryCandidatePage(s, call.query, call.sort, call.cursor)
    ELSE UpdateCandidateSelection(s, call.query, call.operation, call.expected)

AnswerOf(s, call) ==
    IF call.call = "page"
    THEN PageAnswer(s, call.query, call.sort, call.cursor)
    ELSE UpdateAnswer(s, call.query, call.operation, call.expected)

NativeCall ==
    /\ flight.at = "sent"
    /\ LET s == flight.task.scan.scan
           answer == AnswerOf(s, flight.call)
       IN  \/ /\ Execute(s, flight.call) /\ Answered(answer)
              /\ UNCHANGED untold
           \/ /\ CallsFail
              /\ Execute(s, flight.call) /\ Answered(Error("incompatible"))
              /\ untold' = (untold \/ answer.outcome = "updated")
           \/ /\ CallsFail
              /\ Answered(Error("internal"))
              /\ UNCHANGED <<sessionVars, untold>>
    /\ UNCHANGED <<ui, queue>>

-----------------------------------------------------------------------------
(* The answer, and the pump after it.                                      *)

(* Bug: the selection controls are forgotten.                              *)
FailedWithUpdatingBug(u, code) ==
    [u EXCEPT !.phase = IF u.page.present THEN "ready" ELSE "error",
              !.error = code]

(* failWith: a page that is shown stays.                                   *)
FailedWith(u, code) ==
    [u EXCEPT !.phase = IF u.page.present THEN "ready" ELSE "error",
              !.updating = FALSE, !.error = code]

(* recoverThroughFreshQuery.                                               *)
Recovering(u) ==
    [u EXCEPT !.phase = "loading", !.index = 0, !.history = <<FirstPage>>,
              !.cache = <<>>, !.page = Absent, !.error = "none"]
Recover(u) ==
    LET r == Recovering(u) IN Pump(r, Enqueued(queue, FreshQuery(r)))

(* Bug: an answer to an earlier query is shown.                            *)
CurrentBug(task) == task.scan = ui.scan

(* taskIsCurrent.                                                          *)
Current(task) ==
    task.scan = ui.scan /\ task.query.revision = ui.query.revision

(* applyNativePage.                                                        *)
Regresses(answer) ==
    ui.selection.present /\ answer.selection.revision < ui.selection.value.revision

Page(answer) ==
    [query |-> answer.query, cursor |-> answer.cursor, next |-> answer.next,
     rows |-> answer.rows, marked |-> answer.marked]

Applied(task, answer) ==
    [ui EXCEPT !.phase = "ready", !.index = task.index, !.history = task.history,
               !.cache = Touched(@, Page(answer)),
               !.page = [present |-> TRUE, value |-> Page(answer)],
               !.selection = [present |-> TRUE, value |-> answer.selection],
               !.updating = FALSE, !.error = "none"]

SettlePage ==
    LET task == flight.task
        answer == flight.answer
    IN  /\ flight.at = "answered" /\ flight.call.call = "page"
        /\ \/ ~Current(task) /\ Pump(ui, queue)
           \/ /\ Current(task) /\ answer.outcome = "page"
              /\ Pump(IF Regresses(answer) THEN FailedWith(ui, "incompatible")
                      ELSE Applied(task, answer), queue)
           \/ /\ Current(task) /\ answer.outcome = "cursorStale"
              /\ task.cursor # FirstPage /\ Recover(ui)
           \/ /\ Current(task) /\ answer.outcome # "page"
              /\ ~(answer.outcome = "cursorStale" /\ task.cursor # FirstPage)
              /\ Pump(FailedWith(ui, answer.outcome), queue)
        /\ UNCHANGED <<sessionVars, untold>>

SelectionShown(answer) ==
    [ui EXCEPT !.selection = [present |-> TRUE, value |-> answer.selection],
               !.cache = <<>>, !.error = "none"]

(* The page is read again under the new selection, in the same task: from  *)
(* the start if the query is about the selection, else where the task      *)
(* began, at the index that is shown now.                                  *)
Refresh(u) ==
    LET task == IF u.query.selectedOnly
                THEN PageTask(u, "page", FirstPage, 0, <<FirstPage>>)
                ELSE PageTask(u, "page", flight.origin, u.index, u.history)
    IN  /\ ui' = IF u.query.selectedOnly
                 THEN [u EXCEPT !.phase = "loading", !.index = 0,
                                !.history = <<FirstPage>>, !.page = Absent]
                 ELSE u
        /\ flight' = Started(u, task)
        /\ UNCHANGED queue

SettleSelection ==
    LET answer == flight.answer
    IN  /\ flight.at = "answered" /\ flight.call.call = "update"
        /\ \/ flight.task.scan # ui.scan /\ Pump(ui, queue)
           \/ /\ flight.task.scan = ui.scan /\ answer.outcome = "updated"
              /\ LET u == SelectionShown(answer)
                 IN  IF u.query.revision = flight.call.query.revision
                     THEN Refresh(u) ELSE Pump(u, queue)
           \/ /\ flight.task.scan = ui.scan /\ answer.outcome = "selectionStale"
              /\ Recover(ui)
           \/ /\ flight.task.scan = ui.scan
              /\ answer.outcome \notin {"updated", "selectionStale"}
              /\ Pump(FailedWith(ui, answer.outcome), queue)
        /\ UNCHANGED <<sessionVars, untold>>

-----------------------------------------------------------------------------

User ==
    \/ HideScan \/ \E s \in Scans : ShowScan(s)
    \/ \E filter \in DOMAIN Filters, selectedOnly \in BOOLEAN,
          sort \in DOMAIN Ranking : ScheduleIntent(filter, selectedOnly, sort)
    \/ RefuseInput \/ NextPage \/ PreviousPage
    \/ \E operation \in Operations : ClickSelection(operation)

System == NativeCall \/ SettlePage \/ SettleSelection

Next == User \/ System

Spec == Init /\ [][Next]_vars

(* A native call answers or fails, and the event loop runs.                *)
FairSpec == Spec /\ WF_vars(System)
-----------------------------------------------------------------------------
(* Properties.                                                             *)

Shown == ui.page.present /\ ui.phase = "ready"

(* The rows of the page with this index.                                   *)
RowsAt(index) ==
    LET selected == ui.selection.value.selected
        rows == Filter(Ranking[ui.sort],
                       {c \in Candidates : Matches(c, ui.query, selected)})
        last == (index + 1) * PageLimit
    IN  SubSeq(rows, index * PageLimit + 1,
               IF last < Len(rows) THEN last ELSE Len(rows))

(* Whatever was asked, answered late, cached or read again: the page shown *)
(* under number n is the n-th page of the query and the sort that are      *)
(* shown, so that paging through the results meets each of them once; and  *)
(* at rest its check boxes are the selection, unless an error tells that   *)
(* the page could not be read again.                                       *)
PageIsTrue ==
    Shown /\ ~untold =>
       /\ ui.page.value.rows = RowsAt(ui.index)
       /\ flight = Idle /\ ui.error = "none" =>
             ui.page.value.marked =
                ui.selection.value.selected \cap Range(ui.page.value.rows)

(* An update takes effect only on the selection that the user is shown: a  *)
(* user who was not told of an earlier one is asked to look again.         *)
UpdatesAreInformed ==
    [][\A s \in Scans :
          /\ sessions'[s].selected # sessions[s].selected
          /\ sessions'[s].kept = "kept" /\ ui.scan = Scan(s)
          => ui.selection.value.selected = sessions[s].selected]_vars

(* The sessions do for the restore coordinator what it takes for granted:  *)
(* whatever the operation, a selection changes together with its revision, *)
(* and only there.                                                         *)
ImplementsSelectionStore == Store!StoreSpec

(* The view comes to rest: loading ends and the selection controls come    *)
(* back, whatever calls get lost and whatever was queued behind them.      *)
ViewComesToRest ==
    /\ ui.phase = "loading" ~> ui.phase # "loading"
    /\ ui.updating ~> ~ui.updating

-----------------------------------------------------------------------------
(* What the documents say and the code does not do.                        *)

(* SDD-020, 5.2: "Cursor validity is bound to the scan, canonical query,   *)
(* sort, and query revision", which are what the hook sends with it.       *)
CursorsStayValid ==
    flight.at = "answered" /\ flight.call.call = "page"
    /\ ~flight.call.query.selectedOnly =>
       flight.answer.outcome # "cursorStale"

(* SDD-020, 5.4: "row controls are disabled while a native selection       *)
(* mutation is in flight".                                                 *)
ControlsWaitForUpdate ==
    flight.at = "sent" /\ flight.call.call = "update"
    /\ flight.task.scan = ui.scan => ui.updating
=============================================================================
