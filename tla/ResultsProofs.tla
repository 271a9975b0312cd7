---------------------------- MODULE ResultsProofs ----------------------------
(***************************************************************************)
(* Proofs about the results view and the sessions it reads, for every      *)
(* number of scans, candidates, pages and intents.                         *)
(*                                                                         *)
(* The invariant comes in two parts.  ViewInv holds however the user       *)
(* works: whatever waits in the queue or is in flight is of a scan that    *)
(* was stored, and no selection that is shown or that is on its way is     *)
(* ahead of its session.  PageInv, about what the pages show, holds if no  *)
(* input is refused while a page loads: otherwise PageIsTrue is false.     *)
(***************************************************************************)
EXTENDS ResultsWorkspace, ListsProofs

-----------------------------------------------------------------------------
(* The values of the variables.                                            *)

Session == [kept : {"new", "kept", "evicted"}, selected : SUBSET Candidates,
            revision : 0 .. MaxRevision, active : {Unbound} \cup Binding]

AnyScan    == {Scan(s) : s \in Scans}
AnyCursor  == {FirstPage} \cup Cursor
Selection  == [revision : 0 .. MaxRevision, selected : SUBSET Candidates]
PageRecord == [query : Query, cursor : AnyCursor, next : AnyCursor,
               rows : Seq(Candidates), marked : SUBSET Candidates]
Optional(V) == {Absent} \cup [present : {TRUE}, value : V]

Codes == {"queryInvalid", "incompatible", "cursorStale", "selectionStale",
          "internal"}

Ui == [phase : {"idle", "loading", "ready", "error"},
       scan : {NoScan} \cup AnyScan, query : Query, sort : DOMAIN Ranking,
       index : Nat, history : Seq(AnyCursor), cache : Seq(PageRecord),
       page : Optional(PageRecord), selection : Optional(Selection),
       updating : BOOLEAN, error : Codes \cup {"none"}]

PageTasks == [kind : {"query", "page"}, scan : AnyScan, query : Query,
              sort : DOMAIN Ranking, cursor : AnyCursor, index : Nat,
              history : Seq(AnyCursor)]
SelectionTasks == [kind : {"selection"}, scan : AnyScan, operation : Operations]
Tasks == PageTasks \cup SelectionTasks

PageCalls == [call : {"page"}, query : Query, sort : DOMAIN Ranking,
              cursor : AnyCursor]
UpdateCalls == [call : {"update"}, query : Query, operation : Operations,
                expected : 0 .. MaxRevision]

PageAnswers == [outcome : {"page"}, query : Query, cursor : AnyCursor,
                next : AnyCursor, rows : Seq(Candidates),
                marked : SUBSET Candidates, selection : Selection]
UpdateAnswers == [outcome : {"updated"}, query : Query, selection : Selection]
Errors == [outcome : Codes]

(* Every page has its cursor in the history that it was reached through.   *)
Reached(v) == v.index < Len(v.history)

(* What may wait while a scan is shown.                                    *)
WaitingFor(scan) ==
    {t \in PageTasks : t.scan = scan /\ Reached(t)}
    \cup {t \in SelectionTasks : t.scan = scan}

-----------------------------------------------------------------------------
(* What the view knows of its session.                                     *)

(* A selection that was told of a session is not ahead of it, and is the   *)
(* session's if it has its revision.                                       *)
Informed(selection, session) ==
    /\ selection.revision <= session.revision
    /\ selection.revision = session.revision =>
          selection.selected = session.selected

(* Without a scan nothing is shown.                                        *)
Blank(u) == u.phase = "idle" /\ ~u.page.present

(* A view of the sessions ss: the scan that it shows is kept.              *)
Sound(u, ss) ==
    /\ u \in Ui /\ Reached(u)
    /\ u.scan = NoScan => Blank(u)
    /\ \A s \in Scans : u.scan = Scan(s) =>
          /\ ss[s].kept = "kept"
          /\ u.selection.present => Informed(u.selection.value, ss[s])

(* A flight is a page that is read or an update that is made.              *)
PageFlight(f) ==
    /\ f.task \in PageTasks /\ Reached(f.task) /\ f.call = PageCall(f.task)
    /\ f.at = "answered" => f.answer \in PageAnswers \cup Errors
UpdateFlight(f) ==
    /\ f.task \in SelectionTasks /\ f.call \in UpdateCalls
    /\ f.call.operation = f.task.operation /\ f.origin \in AnyCursor
    /\ f.at = "answered" => f.answer \in UpdateAnswers \cup Errors

(* Its scan was stored, its answer tells what was so, and an update        *)
(* expects the revision that is still shown.                               *)
FlightOf(f, s, u, session) ==
    /\ session.kept # "new"
    /\ /\ f.at = "answered" /\ f.answer.outcome \in {"page", "updated"}
       /\ session.kept = "kept"
       => Informed(f.answer.selection, session)
    /\ f.at = "sent" /\ f.call.call = "update" /\ u.scan = Scan(s)
       => /\ u.selection.present
          /\ u.selection.value.revision = f.call.expected

Flying(f, u, ss) ==
    /\ f.at \in {"sent", "answered"}
    /\ PageFlight(f) \/ UpdateFlight(f)
    /\ \A s \in Scans : f.task.scan = Scan(s) => FlightOf(f, s, u, ss[s])

SessionsOK ==
    /\ sessions \in [Scans -> Session] /\ order \in Seq(Scans)
    /\ \A i \in DOMAIN order : sessions[order[i]].kept # "new"

ViewInv ==
    /\ SessionsOK /\ untold \in BOOLEAN
    /\ Sound(ui, sessions)
    /\ queue \in Seq(WaitingFor(ui.scan))
    /\ flight = Idle \/ Flying(flight, ui, sessions)

-----------------------------------------------------------------------------
(* The session's operators.                                                *)

LEMMA ScanIsItsScan ==
    /\ \A s, t \in Scans : Scan(s) = Scan(t) => s = t
    /\ \A s \in Scans : Scan(s) # NoScan /\ Scan(s).scan = s
<1>1. \A s \in Scans : Scan(s).scan = s
    BY DEF Scan
<1>2. \A s \in Scans : Scan(s) # NoScan
    BY WorkspaceAssumption DEF Scan, NoScan
<1> QED
    BY <1>1, <1>2

(* A listing is of candidates.                                             *)
LEMMA ListingType ==
    ASSUME NEW session, NEW query, NEW sort \in DOMAIN Ranking
    PROVE  /\ Listing(session, query, sort) \in Seq(Candidates)
           /\ Len(Listing(session, query, sort)) \in Nat
<1> DEFINE admitted == {c \in Candidates : Matches(c, query, session.selected)}
<1>1. Ranking[sort] \in Seq(Candidates)
    BY SessionAssumption
<1>2. Filter(Ranking[sort], admitted) \in Seq(Candidates \cap admitted)
    <2> HIDE DEF admitted
    <2> QED
        BY <1>1, FilterKeeps
<1>3. Filter(Ranking[sort], admitted) \in Seq(Candidates)
    BY <1>2, SeqMonotonic
<1> QED
    BY <1>3 DEF Listing

LEMMA CursorType ==
    ASSUME NEW cursor \in AnyCursor
    PROVE  cursor.end \in Nat
BY DEF AnyCursor, FirstPage, Cursor

(* Where a page ends, and the cursor of the next one.                      *)
LEMMA PageEndType ==
    ASSUME NEW listing, Len(listing) \in Nat, NEW cursor \in AnyCursor,
           cursor.end <= Len(listing)
    PROVE  /\ PageEnd(listing, cursor) \in cursor.end .. Len(listing)
           /\ PageEnd(listing, cursor) < Len(listing) =>
                 PageEnd(listing, cursor) = cursor.end + PageLimit
BY CursorType, SessionAssumption DEF PageEnd

LEMMA NextCursorType ==
    ASSUME NEW session \in Session, NEW query \in Query,
           NEW sort \in DOMAIN Ranking, NEW cursor \in AnyCursor
    PROVE  NextCursor(session, query, sort, cursor) \in AnyCursor
<1> DEFINE listing == Listing(session, query, sort)
           end == PageEnd(listing, cursor)
<1>1. Len(listing) \in Nat /\ cursor.end \in Nat
    BY ListingType, CursorType
<1>2. CASE end < Len(listing)
    <2>1. end \in Nat \ {0}
        BY <1>1, <1>2, SessionAssumption DEF PageEnd
    <2> DEFINE selection == IF query.selectedOnly THEN session.revision ELSE 0
    <2>2. selection \in 0 .. MaxRevision
        BY SessionAssumption DEF Session
    <2>3. NextCursor(session, query, sort, cursor)
             = [end |-> end, query |-> query, sort |-> sort, selection |-> selection]
        BY <1>2 DEF NextCursor
    <2> HIDE DEF end, selection
    <2> QED
        BY <2>1, <2>2, <2>3 DEF AnyCursor, Cursor
<1>3. CASE ~(end < Len(listing))
    BY <1>3 DEF NextCursor, AnyCursor
<1> QED
    BY <1>2, <1>3

LEMMA RowsType ==
    ASSUME NEW listing \in Seq(Candidates), NEW first \in Nat, NEW last \in Nat,
           last <= Len(listing)
    PROVE  SubSeq(listing, first + 1, last) \in Seq(Candidates)
<1>1. \A i \in first + 1 .. last : listing[i] \in Candidates
    BY LenProperties
<1> QED
    BY <1>1, SubSeqProperties

(* An accepted cursor is within the listing.                               *)
LEMMA AcceptedCursor ==
    ASSUME NEW session, NEW query, NEW sort \in DOMAIN Ranking, NEW cursor,
           Accepts(session, query, sort, cursor)
    PROVE  cursor.end <= Len(Listing(session, query, sort))
BY ListingType DEF Accepts, FirstPage

(* A binding with the cursors it issued.                                   *)
LEMMA ReboundType ==
    ASSUME NEW session \in Session, NEW query \in Query,
           NEW sort \in DOMAIN Ranking, NEW cursor \in AnyCursor,
           Accepts(session, query, sort, cursor)
    PROVE  Rebound(session, query, sort, cursor) \in Binding
<1> DEFINE binding == IF cursor = FirstPage
                      THEN [bound |-> TRUE, query |-> query, sort |-> sort,
                            selection |-> session.revision, cursors |-> {}]
                      ELSE session.active
           next == NextCursor(session, query, sort, cursor)
<1>1. binding \in Binding
    <2>1. CASE cursor = FirstPage
        BY <2>1 DEF Binding, Session
    <2>2. CASE cursor # FirstPage
        <3>1. session.active \in {Unbound} \cup Binding /\ session.active.bound
            BY <2>2 DEF Accepts, Serves, Session
        <3>2. session.active # Unbound
            BY <3>1 DEF Unbound
        <3> QED
            BY <3>1, <3>2, <2>2
    <2> QED
        BY <2>1, <2>2
<1>2. next \in AnyCursor
    BY NextCursorType
<1>3. binding.cursors \cup ({next} \ {FirstPage}) \in SUBSET Cursor
    <2> HIDE DEF binding, next
    <2> QED
        BY <1>1, <1>2 DEF Binding, AnyCursor
<1>4. Rebound(session, query, sort, cursor)
         = [binding EXCEPT !.cursors = @ \cup ({next} \ {FirstPage})]
    BY DEF Rebound
<1> HIDE DEF binding, next
<1> QED
    BY <1>1, <1>3, <1>4 DEF Binding

-----------------------------------------------------------------------------
(* A native call.                                                          *)

LEMMA PageAnswerType ==
    ASSUME SessionsOK, NEW s \in Scans, NEW query \in Query,
           NEW sort \in DOMAIN Ranking, NEW cursor \in AnyCursor,
           NEW answer, answer = PageAnswer(s, query, sort, cursor)
    PROVE  /\ answer \in PageAnswers \cup Errors
           /\ answer.outcome = "page" =>
                 Kept(s) /\ answer.selection = Told(sessions[s])
<1> DEFINE session == sessions[s]
           listing == Listing(session, query, sort)
           rows == SubSeq(listing, cursor.end + 1, PageEnd(listing, cursor))
<1>0. session \in Session
    BY DEF SessionsOK
<1>1. CASE Kept(s) /\ Accepts(session, query, sort, cursor)
    <2>1. cursor.end \in Nat /\ cursor.end <= Len(listing) /\ Len(listing) \in Nat
        BY <1>1, AcceptedCursor, CursorType, ListingType
    <2>2. PageEnd(listing, cursor) \in cursor.end .. Len(listing)
        BY <2>1, PageEndType
    <2>3. rows \in Seq(Candidates)
        BY <2>1, <2>2, ListingType, RowsType
    <2>4. NextCursor(session, query, sort, cursor) \in AnyCursor
        BY <1>0, NextCursorType
    <2>5. Told(session) \in Selection
        BY <1>0 DEF Told, Session, Selection
    <2> DEFINE marked == {rows[i] : i \in DOMAIN rows} \cap session.selected
    <2>6. marked \in SUBSET Candidates
        BY <1>0 DEF Session
    <2>7. answer = [outcome |-> "page", query |-> query, cursor |-> cursor,
                    next |-> NextCursor(session, query, sort, cursor),
                    rows |-> rows, marked |-> marked, selection |-> Told(session)]
        BY <1>1 DEF PageAnswer
    <2> HIDE DEF rows, marked, session
    <2>8. answer \in PageAnswers
        BY <2>3, <2>4, <2>5, <2>6, <2>7 DEF PageAnswers
    <2> QED
        BY <2>7, <2>8, <1>1 DEF session
<1>2. CASE ~(Kept(s) /\ Accepts(session, query, sort, cursor))
    BY <1>2 DEF PageAnswer, Error, Errors, Codes
<1> QED
    BY <1>1, <1>2

LEMMA ProposedType ==
    ASSUME NEW session \in Session, NEW operation \in Operations
    PROVE  Proposed(session, operation) \in SUBSET Candidates
<1>1. operation \in Operation
    BY WorkspaceAssumption
<1>2. MatchingOf(session) \in SUBSET Candidates
    BY DEF MatchingOf
<1>3. session.selected \in SUBSET Candidates
    BY DEF Session
<1> QED
    BY <1>1, <1>2, <1>3 DEF Proposed, Operation

LEMMA UpdatedType ==
    ASSUME NEW session \in Session, session.revision # MaxRevision,
           NEW operation \in Operations
    PROVE  /\ Updated(session, operation) \in Session
           /\ Updated(session, operation).kept = session.kept
           /\ Updated(session, operation).revision = session.revision + 1
           /\ Updated(session, operation).selected = Proposed(session, operation)
<1>1. PICK p \in SUBSET Candidates : p = Proposed(session, operation)
    BY ProposedType
<1>2. PICK n : n = [session EXCEPT !.selected = p, !.revision = @ + 1]
    OBVIOUS
<1>3. n = Updated(session, operation)
    BY <1>1, <1>2 DEF Updated
<1>4. session.revision + 1 \in 0 .. MaxRevision
    BY SessionAssumption DEF Session
<1>5. /\ n.kept = session.kept /\ n.active = session.active
      /\ n.selected = p /\ n.revision = session.revision + 1
    BY <1>2 DEF Session
<1>6. n \in Session
    BY <1>2, <1>4 DEF Session
<1> QED
    BY <1>1, <1>3, <1>5, <1>6

LEMMA RefusalType ==
    ASSUME NEW s \in Scans, NEW query, NEW operation, NEW expected,
           NEW refusal, refusal = Refusal(s, query, operation, expected)
    PROVE  /\ refusal \in Codes \cup {"none"}
           /\ refusal = "none" =>
                 /\ Kept(s) /\ sessions[s].revision = expected
                 /\ sessions[s].revision # MaxRevision
BY DEF Refusal, Codes

(* A page that is read changes the binding of its session only.            *)
LEMMA ReadStep ==
    ASSUME SessionsOK, NEW s \in Scans, NEW query \in Query,
           NEW sort \in DOMAIN Ranking, NEW cursor \in AnyCursor,
           QueryCandidatePage(s, query, sort, cursor)
    PROVE  /\ SessionsOK'
           /\ \A t \in Scans : /\ sessions'[t].kept = sessions[t].kept
                               /\ sessions'[t].selected = sessions[t].selected
                               /\ sessions'[t].revision = sessions[t].revision
<1>1. CASE Kept(s) /\ Accepts(sessions[s], query, sort, cursor)
    <2>1. PICK b : /\ b = Rebound(sessions[s], query, sort, cursor)
                   /\ b \in Binding
        BY <1>1, ReboundType DEF SessionsOK
    <2>2. sessions' = [sessions EXCEPT ![s].active = b] /\ order' = order
        BY <1>1, <2>1 DEF QueryCandidatePage
    <2>3. sessions' \in [Scans -> Session]
        BY <2>1, <2>2 DEF SessionsOK, Session
    <2>4. \A t \in Scans : /\ sessions'[t].kept = sessions[t].kept
                           /\ sessions'[t].selected = sessions[t].selected
                           /\ sessions'[t].revision = sessions[t].revision
        BY <2>2 DEF SessionsOK, Session
    <2> QED
        BY <2>2, <2>3, <2>4 DEF SessionsOK
<1>2. CASE ~(Kept(s) /\ Accepts(sessions[s], query, sort, cursor))
    BY <1>2 DEF QueryCandidatePage, SessionsOK
<1> QED
    BY <1>1, <1>2

(* An update that is taken changes its session, and counts it.             *)
Taken(s, call) ==
    /\ Refusal(s, call.query, call.operation, call.expected) = "none"
    /\ sessions' = [sessions EXCEPT ![s] = Updated(@, call.operation)]

LEMMA UpdateStep ==
    ASSUME SessionsOK, NEW s \in Scans, NEW call \in UpdateCalls,
           UpdateCandidateSelection(s, call.query, call.operation, call.expected)
    PROVE  /\ SessionsOK'
           /\ \A t \in Scans : /\ sessions'[t].kept = sessions[t].kept
                               /\ t # s => sessions'[t] = sessions[t]
           /\ \/ sessions' = sessions
              \/ /\ Taken(s, call) /\ Kept(s)
                 /\ sessions[s].revision = call.expected
                 /\ sessions[s].revision # MaxRevision
                 /\ sessions'[s] = Updated(sessions[s], call.operation)
                 /\ sessions'[s].revision = sessions[s].revision + 1
                 /\ sessions'[s].selected = Proposed(sessions[s], call.operation)
<1> DEFINE refusal == Refusal(s, call.query, call.operation, call.expected)
<1>1. call.operation \in Operations /\ sessions[s] \in Session
    BY DEF UpdateCalls, SessionsOK
<1>2. CASE refusal = "none"
    <2>1. /\ sessions' = [sessions EXCEPT ![s] = Updated(@, call.operation)]
          /\ order' = order
        BY <1>2 DEF UpdateCandidateSelection
    <2>2. /\ Kept(s) /\ sessions[s].revision = call.expected
          /\ sessions[s].revision # MaxRevision
        BY <1>2, RefusalType
    <2>3. PICK n \in Session :
             /\ n = Updated(sessions[s], call.operation)
             /\ n.kept = sessions[s].kept /\ n.revision = sessions[s].revision + 1
             /\ n.selected = Proposed(sessions[s], call.operation)
        BY <1>1, <2>2, UpdatedType
    <2>4. sessions' = [sessions EXCEPT ![s] = n]
        BY <2>1, <2>3
    <2>5. sessions' \in [Scans -> Session] /\ sessions'[s] = n
        BY <2>4 DEF SessionsOK
    <2>6. \A t \in Scans : t # s => sessions'[t] = sessions[t]
        BY <2>4 DEF SessionsOK
    <2>7. \A t \in Scans : sessions'[t].kept = sessions[t].kept
        BY <2>3, <2>5, <2>6
    <2>8. SessionsOK'
        BY <2>1, <2>5, <2>7 DEF SessionsOK
    <2>9. Taken(s, call)
        BY <1>2, <2>1 DEF Taken
    <2> QED
        BY <2>2, <2>3, <2>5, <2>6, <2>7, <2>8, <2>9
<1>3. CASE refusal # "none"
    BY <1>3 DEF UpdateCandidateSelection, SessionsOK
<1> QED
    BY <1>2, <1>3

LEMMA UpdateAnswerType ==
    ASSUME SessionsOK, NEW s \in Scans, NEW call \in UpdateCalls,
           NEW answer,
           answer = UpdateAnswer(s, call.query, call.operation, call.expected),
           UpdateCandidateSelection(s, call.query, call.operation, call.expected)
    PROVE  /\ answer \in UpdateAnswers \cup Errors
           /\ answer.outcome = "updated" => answer.selection = Told(sessions'[s])
<1> DEFINE refusal == Refusal(s, call.query, call.operation, call.expected)
<1>1. call.operation \in Operations /\ sessions[s] \in Session /\ call.query \in Query
    BY DEF UpdateCalls, SessionsOK
<1>2. CASE refusal = "none"
    <2>1. sessions[s].revision # MaxRevision
        BY <1>2, RefusalType
    <2>2. PICK n \in Session : n = Updated(sessions[s], call.operation)
        BY <1>1, <2>1, UpdatedType
    <2>3. answer = [outcome |-> "updated", query |-> call.query,
                    selection |-> Told(n)]
        BY <1>2, <2>2 DEF UpdateAnswer
    <2>4. Told(n) \in Selection
        BY DEF Told, Session, Selection
    <2>5. sessions' = [sessions EXCEPT ![s] = n]
        BY <1>2, <2>2 DEF UpdateCandidateSelection
    <2>6. sessions'[s] = n
        BY <2>5 DEF SessionsOK
    <2>7. answer \in UpdateAnswers
        BY <2>3, <2>4, <1>1 DEF UpdateAnswers
    <2> QED
        BY <2>3, <2>6, <2>7
<1>3. CASE refusal # "none"
    <2>1. refusal \in Codes
        BY <1>3, RefusalType
    <2>2. answer = [outcome |-> refusal]
        BY <1>3 DEF UpdateAnswer, Error
    <2> HIDE DEF refusal
    <2> QED
        BY <2>1, <2>2 DEF Errors, Codes
<1> QED
    BY <1>2, <1>3

(* A session that only advances: a selection known of it stays known.      *)
Advances(s) ==
    /\ sessions'[s].kept = sessions[s].kept
    /\ \/ /\ sessions'[s].revision = sessions[s].revision
          /\ sessions'[s].selected = sessions[s].selected
       \/ sessions'[s].revision = sessions[s].revision + 1

LEMMA StillInformed ==
    ASSUME SessionsOK, SessionsOK', NEW s \in Scans, Advances(s),
           NEW selection \in Selection, Informed(selection, sessions[s])
    PROVE  Informed(selection, sessions'[s])
<1>1. /\ selection.revision \in Nat /\ sessions[s].revision \in Nat
      /\ sessions'[s].revision \in Nat
    BY SessionAssumption DEF SessionsOK, Session, Selection
<1> QED
    BY <1>1 DEF Advances, Informed

LEMMA ToldIsInformed ==
    ASSUME NEW session \in Session, NEW selection, selection = Told(session)
    PROVE  Informed(selection, session)
BY SessionAssumption DEF Told, Informed, Session

LEMMA OptionalValue ==
    ASSUME NEW V, NEW x \in Optional(V), x.present
    PROVE  x.value \in V
<1>1. x # Absent
    <2>1. ~Absent.present
        BY DEF Absent
    <2> QED
        BY <2>1, Zenon
<1>2. x \in [present : {TRUE}, value : V]
    BY <1>1, Zenon DEF Optional
<1> QED
    BY <1>2

(* An answer arrives.                                                      *)
LEMMA Landing ==
    ASSUME ViewInv, NEW s \in Scans, flight # Idle, flight.task.scan = Scan(s),
           NEW answer, Answered(answer), UNCHANGED <<ui, queue>>,
           untold' \in BOOLEAN, SessionsOK', \A t \in Scans : Advances(t),
           flight.call.call = "page" => answer \in PageAnswers \cup Errors,
           flight.call.call = "update" => answer \in UpdateAnswers \cup Errors,
           answer.outcome \in {"page", "updated"} =>
              answer.selection = Told(sessions'[s])
    PROVE  ViewInv'
<1> USE DEF ViewInv
<1>1. Sound(ui, sessions)'
    <2>1. ui.selection.present => ui.selection.value \in Selection
        BY OptionalValue DEF Sound, Ui
    <2>2. ASSUME NEW t \in Scans, ui.scan = Scan(t)
          PROVE  /\ sessions'[t].kept = "kept"
                 /\ ui.selection.present => Informed(ui.selection.value, sessions'[t])
        BY <2>1, <2>2, StillInformed DEF Sound, Advances
    <2> QED
        BY <2>2 DEF Sound
<1>2. PICK f : /\ f = flight' /\ f.at = "answered" /\ f.task = flight.task
               /\ f.call = flight.call /\ f.origin = flight.origin
               /\ f.answer = answer
    BY DEF Answered
<1>3. PageFlight(f) \/ UpdateFlight(f)
    <2>1. CASE PageFlight(flight)
        <3>1. flight.call.call = "page"
            BY <2>1 DEF PageFlight, PageCall
        <3> QED
            BY <1>2, <2>1, <3>1 DEF PageFlight
    <2>2. CASE UpdateFlight(flight)
        <3>1. flight.call.call = "update"
            BY <2>2 DEF UpdateFlight, UpdateCalls
        <3> QED
            BY <1>2, <2>2, <3>1 DEF UpdateFlight
    <2> QED
        BY <2>1, <2>2 DEF Flying
<1>4. ASSUME NEW t \in Scans, f.task.scan = Scan(t)
      PROVE  FlightOf(f, t, ui, sessions'[t])
    <2>1. t = s
        BY <1>2, <1>4, ScanIsItsScan
    <2>2. sessions'[s].kept # "new"
        BY DEF Flying, FlightOf, Advances
    <2>3. f.answer.outcome \in {"page", "updated"} =>
             Informed(f.answer.selection, sessions'[s])
        BY <1>2, ToldIsInformed DEF SessionsOK
    <2> QED
        BY <1>2, <2>1, <2>2, <2>3 DEF FlightOf
<1>5. Flying(f, ui', sessions')
    BY <1>2, <1>3, <1>4 DEF Flying
<1> QED
    BY <1>1, <1>2, <1>5

(* A flight is of a stored scan, and its call is that of a page or of an   *)
(* update.                                                                 *)
LEMMA FlightShape ==
    ASSUME ViewInv, flight # Idle
    PROVE  /\ \E s \in Scans : flight.task.scan = Scan(s)
           /\ flight.call.call = "page" =>
                 /\ PageFlight(flight) /\ flight.call.query \in Query
                 /\ flight.call.sort \in DOMAIN Ranking
                 /\ flight.call.cursor \in AnyCursor
           /\ flight.call.call # "page" =>
                 /\ UpdateFlight(flight) /\ flight.call.call = "update"
                 /\ flight.call \in UpdateCalls
<1>1. CASE PageFlight(flight)
    BY <1>1 DEF PageFlight, PageCall, PageTasks, AnyScan
<1>2. CASE UpdateFlight(flight)
    BY <1>2 DEF UpdateFlight, UpdateCalls, SelectionTasks, AnyScan
<1> QED
    BY <1>1, <1>2 DEF ViewInv, Flying

LEMMA NativeCallView ==
    ASSUME ViewInv, NativeCall
    PROVE  ViewInv'
<1> USE DEF ViewInv
<1>1. flight # Idle /\ flight.at = "sent" /\ UNCHANGED <<ui, queue>>
    BY DEF NativeCall, Idle
<1>2. PICK s \in Scans : flight.task.scan = Scan(s)
    BY <1>1, FlightShape
<1>3. flight.task.scan.scan = s
    BY <1>2, ScanIsItsScan
<1> DEFINE answer == AnswerOf(s, flight.call)
<1>4. \/ /\ Execute(s, flight.call) /\ Answered(answer) /\ UNCHANGED untold
      \/ /\ Execute(s, flight.call) /\ Answered(Error("incompatible"))
         /\ untold' = (untold \/ answer.outcome = "updated")
      \/ /\ Answered(Error("internal")) /\ UNCHANGED <<sessionVars, untold>>
    BY <1>3 DEF NativeCall
<1>5. ASSUME NEW code \in Codes
      PROVE  /\ Error(code) \in Errors
             /\ Error(code).outcome \notin {"page", "updated"}
    BY <1>5 DEF Error, Errors, Codes
<1>6. untold' \in BOOLEAN
    BY <1>4
<1>7. CASE Answered(Error("internal")) /\ UNCHANGED <<sessionVars, untold>>
    <2>1. SessionsOK' /\ \A t \in Scans : Advances(t)
        BY <1>7 DEF SessionsOK, Advances, sessionVars
    <2>2. PICK e : e = Error("internal")
        OBVIOUS
    <2>3. e \in Errors /\ e.outcome \notin {"page", "updated"}
        BY <1>5, <2>2 DEF Codes
    <2>4. Answered(e)
        BY <1>7, <2>2
    <2> QED
        BY <1>1, <1>2, <1>6, <2>1, <2>3, <2>4, Landing
<1>8. CASE Execute(s, flight.call)
    <2>1. PICK a : a = answer
        OBVIOUS
    <2>2. PICK e : e = Error("incompatible")
        OBVIOUS
    <2>3. e \in Errors /\ e.outcome \notin {"page", "updated"}
        BY <1>5, <2>2 DEF Codes
    <2>4. /\ SessionsOK' /\ \A t \in Scans : Advances(t)
          /\ flight.call.call = "page" => a \in PageAnswers \cup Errors
          /\ flight.call.call = "update" => a \in UpdateAnswers \cup Errors
          /\ a.outcome \in {"page", "updated"} => a.selection = Told(sessions'[s])
        <3>1. CASE flight.call.call = "page"
            <4>1. /\ flight.call.query \in Query /\ flight.call.sort \in DOMAIN Ranking
                  /\ flight.call.cursor \in AnyCursor
                BY <1>1, <3>1, FlightShape
            <4>2. QueryCandidatePage(s, flight.call.query, flight.call.sort,
                                     flight.call.cursor)
                BY <1>8, <3>1 DEF Execute
            <4>3. a = PageAnswer(s, flight.call.query, flight.call.sort,
                                 flight.call.cursor)
                BY <2>1, <3>1 DEF AnswerOf
            <4>4. SessionsOK' /\ \A t \in Scans : Advances(t)
                BY <4>1, <4>2, ReadStep DEF Advances
            <4>5. /\ a \in PageAnswers \cup Errors
                  /\ a.outcome = "page" => a.selection = Told(sessions[s])
                BY <4>1, <4>3, PageAnswerType
            <4>6. a.outcome # "updated"
                BY <4>5 DEF PageAnswers, Errors, Codes
            <4>7. Told(sessions[s]) = Told(sessions'[s])
                BY <4>1, <4>2, ReadStep DEF Told
            <4> QED
                BY <3>1, <4>4, <4>5, <4>6, <4>7
        <3>2. CASE flight.call.call # "page"
            <4>1. flight.call \in UpdateCalls
                BY <1>1, <3>2, FlightShape
            <4>2. UpdateCandidateSelection(s, flight.call.query,
                     flight.call.operation, flight.call.expected)
                BY <1>8, <3>2 DEF Execute
            <4>3. a = UpdateAnswer(s, flight.call.query,
                         flight.call.operation, flight.call.expected)
                BY <2>1, <3>2 DEF AnswerOf
            <4>4. SessionsOK' /\ \A t \in Scans : Advances(t)
                BY <4>1, <4>2, UpdateStep DEF Advances
            <4>5. /\ a \in UpdateAnswers \cup Errors
                  /\ a.outcome = "updated" => a.selection = Told(sessions'[s])
                BY <4>1, <4>2, <4>3, UpdateAnswerType
            <4>6. a.outcome # "page"
                BY <4>5 DEF UpdateAnswers, Errors, Codes
            <4> QED
                BY <3>2, <4>4, <4>5, <4>6
        <3> QED
            BY <3>1, <3>2
    <2>5. CASE Answered(a)
        BY <1>1, <1>2, <1>6, <2>4, <2>5, Landing
    <2>6. CASE Answered(e)
        BY <1>1, <1>2, <1>6, <2>3, <2>4, <2>6, Landing
    <2> HIDE DEF answer
    <2> QED
        BY <1>4, <1>7, <2>1, <2>2, <2>5, <2>6
<1> QED
    BY <1>4, <1>7, <1>8

-----------------------------------------------------------------------------
(* The queue.                                                              *)

LEMMA MinIsElement ==
    ASSUME NEW N \in SUBSET Nat, N # {}
    PROVE  Min(N) \in N /\ \A n \in N : Min(N) <= n
<1>1. \E m \in N : \A n \in N : m <= n
    BY LeastNumber
<1> QED
    BY <1>1 DEF Min

LEMMA EnqueuedType ==
    ASSUME NEW scan, NEW tasks \in Seq(WaitingFor(scan)),
           NEW task \in WaitingFor(scan)
    PROVE  Enqueued(tasks, task) \in Seq(WaitingFor(scan))
<1> DEFINE dropped == IF task.kind = "query" THEN {"query", "page"} ELSE
                      IF task.kind = "page"  THEN {"page"} ELSE {}
           kept == {t \in Range(tasks) : t.kind \notin dropped}
<1>1. Enqueued(tasks, task) = Append(Filter(tasks, kept), task)
    BY DEF Enqueued
<1> HIDE DEF kept
<1>2. Filter(tasks, kept) \in Seq(WaitingFor(scan) \cap kept)
    BY FilterKeeps
<1>3. Filter(tasks, kept) \in Seq(WaitingFor(scan))
    BY <1>2, SeqMonotonic
<1> QED
    BY <1>1, <1>3, AppendProperties

(* What starts is the first task with a point to it.                       *)
LEMMA PumpView ==
    ASSUME NEW u, NEW tasks \in Seq(WaitingFor(u.scan)), Pump(u, tasks)
    PROVE  /\ ui' = u \/ ui' = [u EXCEPT !.updating = FALSE]
           /\ queue' \in Seq(WaitingFor(u.scan))
           /\ \/ flight' = Idle
              \/ \E t \in WaitingFor(u.scan) :
                    flight' = Started(u, t) /\ ~Pointless(u, t)
<1> DEFINE W == WaitingFor(u.scan)
           useful == {i \in DOMAIN tasks : ~Pointless(u, tasks[i])}
<1>1. ui' = u \/ ui' = [u EXCEPT !.updating = FALSE]
    BY DEF Pump
<1>2. CASE useful = {}
    BY <1>1, <1>2, EmptySeq DEF Pump
<1>3. CASE useful # {}
    <2> HIDE DEF W
    <2>1. PICK i : i = Min(useful)
        OBVIOUS
    <2>2. useful \in SUBSET Nat
        BY LenProperties DEF W
    <2>3. i \in useful
        BY <1>3, <2>1, <2>2, MinIsElement
    <2>4. i \in 1 .. Len(tasks) /\ Len(tasks) \in Nat /\ ~Pointless(u, tasks[i])
        BY <2>3, LenProperties DEF W
    <2>5. tasks[i] \in W
        BY <2>4, ElementOfSeq DEF W
    <2>6. queue' = SubSeq(tasks, i + 1, Len(tasks)) /\ flight' = Started(u, tasks[i])
        BY <1>3, <2>1 DEF Pump
    <2>7. \A j \in i + 1 .. Len(tasks) : tasks[j] \in W
        BY <2>4, ElementOfSeq DEF W
    <2>8. queue' \in Seq(W)
        BY <2>4, <2>6, <2>7, SubSeqProperties
    <2> QED
        BY <1>1, <2>4, <2>5, <2>6, <2>8 DEF W
<1> QED
    BY <1>2, <1>3

(* A page that is asked for flies.                                         *)
LEMMA PageFlies ==
    ASSUME NEW u, NEW ss, Sound(u, ss), NEW t \in PageTasks, t.scan = u.scan,
           Reached(t), NEW f, f = Started(u, t)
    PROVE  Flying(f, u, ss)
<1>1. t.kind # "selection"
    BY DEF PageTasks
<1>2. f = [at |-> "sent", task |-> t, call |-> PageCall(t), origin |-> FirstPage]
    BY <1>1 DEF Started
<1>3. f.at = "sent" /\ f.task = t /\ f.call = PageCall(t)
    BY <1>2
<1>4. f.call.call = "page"
    BY <1>3 DEF PageCall
<1>5. PageFlight(f)
    BY <1>3 DEF PageFlight
<1>6. ASSUME NEW s \in Scans, f.task.scan = Scan(s)
      PROVE  FlightOf(f, s, u, ss[s])
    BY <1>3, <1>4, <1>6 DEF FlightOf, Sound
<1> QED
    BY <1>3, <1>5, <1>6 DEF Flying

LEMMA UpdateFlies ==
    ASSUME NEW u, NEW ss, Sound(u, ss), NEW t \in SelectionTasks, t.scan = u.scan,
           ~Pointless(u, t), NEW f, f = Started(u, t)
    PROVE  Flying(f, u, ss)
<1>1. t.kind = "selection" /\ t.operation \in Operations
    BY DEF SelectionTasks
<1>2. u.page.present /\ u.selection.present
    BY <1>1 DEF Pointless
<1>3. u.page.value \in PageRecord /\ u.selection.value \in Selection
    BY <1>2, OptionalValue DEF Sound, Ui
<1>4. f = [at |-> "sent", task |-> t, call |-> UpdateCall(u, t),
           origin |-> u.page.value.cursor]
    BY <1>1 DEF Started
<1>5. PICK c : c = UpdateCall(u, t)
    OBVIOUS
<1>6. /\ c.call = "update" /\ c.operation = t.operation
      /\ c.expected = u.selection.value.revision
    BY <1>5 DEF UpdateCall
<1>7. c \in UpdateCalls
    BY <1>1, <1>3, <1>5 DEF UpdateCall, UpdateCalls, PageRecord, Selection
<1>8. f.at = "sent" /\ f.task = t /\ f.call = c /\ f.origin \in AnyCursor
    BY <1>3, <1>4, <1>5 DEF PageRecord
<1>9. UpdateFlight(f)
    BY <1>6, <1>7, <1>8 DEF UpdateFlight
<1>10. ASSUME NEW s \in Scans, f.task.scan = Scan(s)
       PROVE  FlightOf(f, s, u, ss[s])
    BY <1>2, <1>6, <1>8, <1>10 DEF FlightOf, Sound
<1> QED
    BY <1>8, <1>9, <1>10 DEF Flying

(* The controls do not matter to what is known.                            *)
LEMMA SameButUpdating ==
    ASSUME NEW u \in Ui, NEW v, v = u \/ v = [u EXCEPT !.updating = FALSE]
    PROVE  /\ v \in Ui /\ v.scan = u.scan /\ v.selection = u.selection
           /\ Reached(u) => Reached(v)
           /\ Blank(u) => Blank(v)
           /\ \A ss : Sound(u, ss) => Sound(v, ss)
           /\ \A f, ss : Flying(f, u, ss) => Flying(f, v, ss)
<1>1. /\ v \in Ui /\ v.scan = u.scan /\ v.selection = u.selection
      /\ v.index = u.index /\ v.history = u.history
      /\ v.phase = u.phase /\ v.page = u.page
    <2>1. CASE v = u
        BY <2>1
    <2>2. CASE v = [u EXCEPT !.updating = FALSE]
        BY <2>2 DEF Ui
    <2> QED
        BY <2>1, <2>2
<1>2. (Reached(u) => Reached(v)) /\ (Blank(u) => Blank(v))
    BY <1>1 DEF Reached, Blank
<1>3. ASSUME NEW ss, Sound(u, ss) PROVE Sound(v, ss)
    BY <1>1, <1>2, <1>3 DEF Sound
<1>4. ASSUME NEW f, NEW ss, Flying(f, u, ss) PROVE Flying(f, v, ss)
    BY <1>1, <1>4 DEF Flying, FlightOf
<1> QED
    BY <1>1, <1>2, <1>3, <1>4

LEMMA PumpStep ==
    ASSUME SessionsOK', untold' \in BOOLEAN, NEW u, Sound(u, sessions'),
           NEW tasks \in Seq(WaitingFor(u.scan)), Pump(u, tasks)
    PROVE  ViewInv'
<1>1. u \in Ui
    BY DEF Sound
<1>2. PICK v : v = ui'
    OBVIOUS
<1>3. /\ v = u \/ v = [u EXCEPT !.updating = FALSE]
      /\ queue' \in Seq(WaitingFor(u.scan))
    BY <1>2, PumpView
<1>4. v.scan = u.scan /\ Sound(v, sessions')
    BY <1>1, <1>3, SameButUpdating
<1>5. flight' = Idle \/ Flying(flight', v, sessions')
    <2> SUFFICES ASSUME flight' # Idle PROVE Flying(flight', v, sessions')
        OBVIOUS
    <2>1. PICK t \in WaitingFor(u.scan) : flight' = Started(u, t) /\ ~Pointless(u, t)
        BY PumpView
    <2>2. PICK f : f = flight'
        OBVIOUS
    <2>3. Flying(f, u, sessions')
        <3>1. CASE t \in PageTasks /\ t.scan = u.scan /\ Reached(t)
            BY <2>1, <2>2, <3>1, PageFlies
        <3>2. CASE t \in SelectionTasks /\ t.scan = u.scan
            BY <2>1, <2>2, <3>2, UpdateFlies
        <3> QED
            BY <3>1, <3>2 DEF WaitingFor
    <2> QED
        BY <1>1, <1>3, <2>2, <2>3, SameButUpdating
<1> QED
    BY <1>2, <1>3, <1>4, <1>5 DEF ViewInv

LEMMA TurnStep ==
    ASSUME ViewInv, SessionsOK', untold' \in BOOLEAN, NEW u, Sound(u, sessions'),
           NEW tasks \in Seq(WaitingFor(u.scan)), Turn(u, tasks),
           flight # Idle => Flying(flight, u, sessions')
    PROVE  ViewInv'
<1>1. CASE flight = Idle
    BY <1>1, PumpStep DEF Turn
<1>2. CASE flight # Idle
    BY <1>2 DEF Turn, ViewInv
<1> QED
    BY <1>1, <1>2

-----------------------------------------------------------------------------
(* The steps of the view.                                                  *)

LEMMA FreshUi ==
    ASSUME NEW scan \in {NoScan} \cup AnyScan, NEW ss,
           \A s \in Scans : scan = Scan(s) => ss[s].kept = "kept"
    PROVE  /\ Sound(InitialUi(scan), ss) /\ InitialUi(scan).scan = scan
           /\ ~InitialUi(scan).selection.present
<1> DEFINE u == InitialUi(scan)
<1>1. InitialQuery \in Query
    <2>1. \E f \in DOMAIN Filters : Filters[f] = Candidates
        BY WorkspaceAssumption
    <2>2. (CHOOSE f \in DOMAIN Filters : Filters[f] = Candidates) \in DOMAIN Filters
        BY <2>1
    <2> QED
        BY <2>2 DEF InitialQuery, Query
<1>2. InitialSort \in DOMAIN Ranking
    BY WorkspaceAssumption DEF InitialSort
<1>3. Absent \in Optional(PageRecord) /\ Absent \in Optional(Selection)
    BY DEF Optional
<1>4. <<FirstPage>> \in Seq(AnyCursor) /\ <<>> \in Seq(PageRecord)
    BY DEF AnyCursor
<1>5. u \in Ui
    BY <1>1, <1>2, <1>3, <1>4 DEF InitialUi, Ui
<1>6. /\ u.scan = scan /\ ~u.selection.present /\ Reached(u)
      /\ u.scan = NoScan => Blank(u)
    BY DEF InitialUi, Absent, Reached, Blank
<1> QED
    BY <1>5, <1>6 DEF Sound

LEMMA FreshTask ==
    ASSUME NEW u \in Ui, u.scan \in AnyScan
    PROVE  FreshQuery(u) \in WaitingFor(u.scan)
<1>1. PICK t : t = FreshQuery(u)
    OBVIOUS
<1>2. t = [kind |-> "query", scan |-> u.scan, query |-> u.query, sort |-> u.sort,
           cursor |-> FirstPage, index |-> 0, history |-> <<FirstPage>>]
    BY <1>1 DEF FreshQuery, PageTask
<1>3. FirstPage \in AnyCursor /\ <<FirstPage>> \in Seq(AnyCursor)
    BY DEF AnyCursor
<1>4. t \in PageTasks
    BY <1>2, <1>3 DEF PageTasks, Ui
<1>5. t.scan = u.scan /\ Reached(t)
    BY <1>2 DEF Reached
<1> QED
    BY <1>1, <1>4, <1>5 DEF WaitingFor

(* A view of the same scan and the same selection knows as much.           *)
LEMMA SameKnowledge ==
    ASSUME ViewInv, UNCHANGED sessionVars, NEW u \in Ui, Reached(u),
           u.scan = ui.scan, u.selection = ui.selection, u.scan # NoScan
    PROVE  /\ SessionsOK' /\ Sound(u, sessions')
           /\ flight # Idle => Flying(flight, u, sessions')
BY DEF ViewInv, SessionsOK, sessionVars, Sound, Flying, FlightOf

LEMMA ShownScan ==
    ASSUME ViewInv, ui.scan # NoScan
    PROVE  ui.scan \in AnyScan
BY DEF ViewInv, Sound, Ui

LEMMA HideScanView ==
    ASSUME ViewInv, HideScan
    PROVE  ViewInv'
<1>1. PICK u : u = InitialUi(NoScan)
    OBVIOUS
<1>2. SessionsOK' /\ sessions' = sessions /\ untold' \in BOOLEAN
    BY DEF HideScan, ViewInv, SessionsOK, sessionVars
<1>3. /\ Sound(u, sessions') /\ u.scan = NoScan /\ ~u.selection.present
    BY <1>1, FreshUi, ScanIsItsScan
<1>4. flight # Idle => Flying(flight, u, sessions')
    BY <1>2, <1>3, ScanIsItsScan DEF ViewInv, Flying, FlightOf
<1>5. Turn(u, <<>>) /\ <<>> \in Seq(WaitingFor(u.scan))
    BY <1>1 DEF HideScan
<1> QED
    BY <1>2, <1>3, <1>4, <1>5, TurnStep

(* What is stored is new, and what is evicted is not.                      *)
LEMMA StoreStep ==
    ASSUME SessionsOK, NEW s \in Scans, StoreSession(s)
    PROVE  /\ SessionsOK' /\ sessions[s].kept = "new"
           /\ sessions'[s] = [sessions[s] EXCEPT !.kept = "kept"]
           /\ \A t \in Scans \ {s} : \/ sessions'[t] = sessions[t]
                                     \/ /\ sessions[t].kept # "new"
                                        /\ sessions'[t] = Evicted
<1>1. sessions[s].kept = "new" /\ sessions[s] \in Session
    BY DEF StoreSession, SessionsOK
<1>2. PICK n : n = [sessions[s] EXCEPT !.kept = "kept"]
    OBVIOUS
<1>3. n \in Session /\ n.kept = "kept"
    BY <1>1, <1>2 DEF Session
<1>4. Evicted \in Session /\ Evicted.kept = "evicted"
    BY SessionAssumption DEF Evicted, NewSession, Session
<1>5. Len(order) \in Nat /\ DOMAIN order = 1 .. Len(order)
    BY LenProperties DEF SessionsOK
<1>6. CASE Len(order) < MaxScans
    <2>1. /\ sessions' = [sessions EXCEPT ![s] = n] /\ order' = Append(order, s)
        BY <1>2, <1>6 DEF StoreSession, SessionsOK
    <2>2. sessions' \in [Scans -> Session] /\ sessions'[s] = n
        BY <1>3, <2>1 DEF SessionsOK
    <2>3. \A t \in Scans \ {s} : sessions'[t] = sessions[t]
        BY <2>1 DEF SessionsOK
    <2>4. /\ order' \in Seq(Scans) /\ Len(order') = Len(order) + 1
          /\ \A i \in 1 .. Len(order) : order'[i] = order[i]
          /\ order'[Len(order) + 1] = s
        BY <2>1, AppendProperties DEF SessionsOK
    <2>5. \A i \in DOMAIN order' : sessions'[order'[i]].kept # "new"
        <3> TAKE i \in DOMAIN order'
        <3>1. i \in 1 .. Len(order) + 1
            BY <2>4, LenProperties
        <3>2. CASE i = Len(order) + 1
            BY <3>2, <2>2, <2>4, <1>3
        <3>3. CASE i \in 1 .. Len(order)
            <4>1. order[i] \in Scans /\ sessions[order[i]].kept # "new"
                BY <3>3, <1>5, ElementOfSeq DEF SessionsOK
            <4> QED
                BY <3>3, <4>1, <2>3, <2>4, <1>1
        <3> QED
            BY <3>1, <3>2, <3>3, <1>5
    <2> QED
        BY <1>1, <1>2, <2>2, <2>3, <2>4, <2>5 DEF SessionsOK
<1>7. CASE ~(Len(order) < MaxScans)
    <2>1. order # <<>>
        BY <1>5, <1>7, SessionAssumption
    <2>2. PICK h \in Scans : h = Head(order) /\ h = order[1] /\ 1 \in DOMAIN order
        BY <1>5, <2>1, HeadTailProperties DEF SessionsOK
    <2>3. sessions[h].kept # "new" /\ h # s
        BY <1>1, <2>2 DEF SessionsOK
    <2>4. sessions' = [sessions EXCEPT ![s] = n, ![h] = Evicted]
          /\ order' = Append(Tail(order), s)
        BY <1>2, <1>7, <2>2 DEF StoreSession, SessionsOK
    <2>5. sessions' \in [Scans -> Session] /\ sessions'[s] = n /\ sessions'[h] = Evicted
        BY <1>3, <1>4, <2>3, <2>4 DEF SessionsOK
    <2>6. \A t \in Scans \ {s, h} : sessions'[t] = sessions[t]
        BY <2>4 DEF SessionsOK
    <2>7. /\ Tail(order) \in Seq(Scans) /\ Len(Tail(order)) = Len(order) - 1
          /\ \A i \in 1 .. Len(order) - 1 : Tail(order)[i] = order[i + 1]
        BY <2>1, HeadTailProperties DEF SessionsOK
    <2>8. /\ order' \in Seq(Scans) /\ Len(order') = Len(order)
          /\ \A i \in 1 .. Len(order) - 1 : order'[i] = order[i + 1]
          /\ order'[Len(order)] = s
        <3>1. PICK q \in Seq(Scans) : q = Tail(order)
            BY <2>7
        <3>2. /\ Append(q, s) \in Seq(Scans) /\ Len(Append(q, s)) = Len(q) + 1
              /\ \A i \in 1 .. Len(q) : Append(q, s)[i] = q[i]
              /\ Append(q, s)[Len(q) + 1] = s
            BY AppendProperties
        <3> QED
            BY <3>1, <3>2, <2>4, <2>7, <1>5
    <2>9. \A i \in DOMAIN order' : sessions'[order'[i]].kept # "new"
        <3> TAKE i \in DOMAIN order'
        <3>1. i \in 1 .. Len(order)
            BY <2>8, LenProperties
        <3>2. CASE i = Len(order)
            BY <3>2, <2>5, <2>8, <1>3
        <3>3. CASE i \in 1 .. Len(order) - 1
            <4>1. i + 1 \in DOMAIN order
                BY <3>3, <1>5
            <4>2. order[i + 1] \in Scans /\ sessions[order[i + 1]].kept # "new"
                BY <4>1, <1>5, ElementOfSeq DEF SessionsOK
            <4>3. order'[i] = order[i + 1]
                BY <3>3, <2>8
            <4> QED
                BY <4>2, <4>3, <2>5, <2>6, <1>1, <1>4
        <3> QED
            BY <3>1, <3>2, <3>3, <1>5
    <2> QED
        BY <1>1, <1>2, <2>3, <2>5, <2>6, <2>8, <2>9 DEF SessionsOK
<1> QED
    BY <1>6, <1>7

LEMMA ShowScanView ==
    ASSUME ViewInv, NEW s \in Scans, ShowScan(s)
    PROVE  ViewInv'
<1>1. PICK u : u = InitialUi(Scan(s))
    OBVIOUS
<1>2. /\ SessionsOK' /\ sessions[s].kept = "new" /\ sessions'[s].kept = "kept"
      /\ \A t \in Scans \ {s} : \/ sessions'[t] = sessions[t]
                                \/ /\ sessions[t].kept # "new"
                                   /\ sessions'[t].kept = "evicted"
    <2>1. StoreSession(s) /\ SessionsOK
        BY DEF ShowScan, ViewInv
    <2>2. sessions[s] \in Session /\ Evicted.kept = "evicted"
        BY <2>1 DEF SessionsOK, Evicted, NewSession
    <2> QED
        BY <2>1, <2>2, StoreStep DEF Session
<1>3. untold' \in BOOLEAN
    BY DEF ShowScan, ViewInv
<1>4. Scan(s) \in AnyScan
    BY DEF AnyScan
<1>5. /\ Sound(u, sessions') /\ u.scan = Scan(s) /\ ~u.selection.present
    <2>1. \A t \in Scans : Scan(s) = Scan(t) => sessions'[t].kept = "kept"
        BY <1>2, ScanIsItsScan
    <2>2. PICK ss : ss = sessions'
        OBVIOUS
    <2> QED
        BY <1>1, <1>4, <2>1, <2>2, FreshUi
<1>6. flight # Idle => Flying(flight, u, sessions')
    <2> SUFFICES ASSUME flight # Idle PROVE Flying(flight, u, sessions')
        OBVIOUS
    <2>1. Flying(flight, ui, sessions)
        BY DEF ViewInv
    <2>2. ASSUME NEW t \in Scans, flight.task.scan = Scan(t)
          PROVE  FlightOf(flight, t, u, sessions'[t])
        <3>1. FlightOf(flight, t, ui, sessions[t]) /\ sessions[t].kept # "new"
            BY <2>1, <2>2 DEF Flying, FlightOf
        <3>2. t # s
            BY <3>1, <1>2
        <3>3. u.scan # Scan(t)
            BY <3>2, <1>5, ScanIsItsScan
        <3>4. CASE sessions'[t] = sessions[t]
            BY <3>1, <3>3, <3>4 DEF FlightOf
        <3>5. CASE sessions'[t].kept = "evicted"
            BY <3>1, <3>3, <3>5 DEF FlightOf
        <3> QED
            BY <3>2, <3>4, <3>5, <1>2
    <2> QED
        BY <2>1, <2>2 DEF Flying
<1>7. queue \in Seq(WaitingFor(u.scan))
    <2>1. queue \in Seq(WaitingFor(NoScan))
        BY DEF ViewInv, ShowScan
    <2>2. WaitingFor(NoScan) = {}
        BY ScanIsItsScan DEF WaitingFor, PageTasks, SelectionTasks, AnyScan
    <2> QED
        BY <2>1, <2>2, SeqMonotonic
<1>8. PICK tasks : tasks = Enqueued(queue, FreshQuery(u))
    OBVIOUS
<1>9. tasks \in Seq(WaitingFor(u.scan))
    BY <1>4, <1>5, <1>7, <1>8, FreshTask, EnqueuedType DEF Sound
<1>10. Turn(u, tasks)
    BY <1>1, <1>8 DEF ShowScan
<1> QED
    BY <1>2, <1>3, <1>5, <1>6, <1>9, <1>10, TurnStep

(* A task of the user's for a view that knows as much as before.           *)
LEMMA UserTurn ==
    ASSUME ViewInv, UNCHANGED <<sessionVars, untold>>, NEW u \in Ui, Reached(u),
           u.scan = ui.scan, u.selection = ui.selection,
           NEW task \in WaitingFor(ui.scan), Turn(u, Enqueued(queue, task))
    PROVE  ViewInv'
<1>1. PICK tasks : tasks = Enqueued(queue, task)
    OBVIOUS
<1>2. tasks \in Seq(WaitingFor(u.scan))
    BY <1>1, EnqueuedType DEF ViewInv
<1>3. untold' \in BOOLEAN /\ u.scan # NoScan
    BY ScanIsItsScan DEF ViewInv, WaitingFor, PageTasks, SelectionTasks, AnyScan
<1>4. /\ SessionsOK' /\ Sound(u, sessions')
      /\ flight # Idle => Flying(flight, u, sessions')
    BY <1>3, SameKnowledge
<1> QED
    BY <1>1, <1>2, <1>3, <1>4, TurnStep

LEMMA ScheduleIntentView ==
    ASSUME ViewInv, NEW filter \in DOMAIN Filters, NEW selectedOnly \in BOOLEAN,
           NEW sort \in DOMAIN Ranking, ScheduleIntent(filter, selectedOnly, sort)
    PROVE  ViewInv'
<1>1. ui \in Ui /\ ui.query \in Query
    BY DEF ViewInv, Sound, Ui
<1>2. PICK query : query = [filter |-> filter, selectedOnly |-> selectedOnly,
                            revision |-> ui.query.revision + 1]
    OBVIOUS
<1>3. query \in Query
    BY <1>1, <1>2 DEF Query
<1>4. PICK u : u = [ui EXCEPT
                      !.phase = "loading", !.index = 0, !.history = <<FirstPage>>,
                      !.query = query, !.sort = sort, !.cache = <<>>,
                      !.page = Absent, !.error = "none"]
    OBVIOUS
<1>5. /\ <<FirstPage>> \in Seq(AnyCursor) /\ <<>> \in Seq(PageRecord)
      /\ Absent \in Optional(PageRecord)
    BY DEF AnyCursor, Optional
<1>6. u \in Ui
    BY <1>1, <1>3, <1>4, <1>5 DEF Ui
<1>7. /\ u.scan = ui.scan /\ u.selection = ui.selection
      /\ u.index = 0 /\ u.history = <<FirstPage>>
    BY <1>1, <1>4 DEF Ui
<1>8. Reached(u)
    BY <1>7 DEF Reached
<1>9. ui.scan # NoScan
    BY DEF ScheduleIntent, ViewInv, Sound, Blank
<1>10. FreshQuery(u) \in WaitingFor(ui.scan)
    BY <1>6, <1>7, <1>9, ShownScan, FreshTask
<1>11. Turn(u, Enqueued(queue, FreshQuery(u)))
    BY <1>2, <1>4 DEF ScheduleIntent
<1>12. UNCHANGED <<sessionVars, untold>>
    BY DEF ScheduleIntent
<1> QED
    BY <1>6, <1>7, <1>8, <1>10, <1>11, <1>12, UserTurn

LEMMA RefuseInputView ==
    ASSUME ViewInv, RefuseInput
    PROVE  ViewInv'
<1>1. ui \in Ui /\ Reached(ui) /\ ui.scan # NoScan
    BY DEF ViewInv, Sound, RefuseInput
<1>2. PICK u : u = [ui EXCEPT !.phase = "error", !.error = "queryInvalid"]
    OBVIOUS
<1>3. u \in Ui
    BY <1>1, <1>2 DEF Ui, Codes
<1>4. /\ u.scan = ui.scan /\ u.selection = ui.selection
      /\ u.index = ui.index /\ u.history = ui.history
    BY <1>1, <1>2 DEF Ui
<1>5. Reached(u)
    BY <1>1, <1>4 DEF Reached
<1>6. /\ SessionsOK' /\ Sound(u, sessions')
      /\ flight # Idle => Flying(flight, u, sessions')
    BY <1>1, <1>3, <1>4, <1>5, SameKnowledge DEF RefuseInput
<1> QED
    BY <1>2, <1>4, <1>6 DEF RefuseInput, ViewInv

(* The cache has its own pages, and the one that is touched.               *)
LEMMA TouchedType ==
    ASSUME NEW T, NEW cache \in Seq(T), NEW page \in T
    PROVE  Touched(cache, page) \in Seq(T)
<1> DEFINE others == {p \in Range(cache) : \/ p.query.revision # page.query.revision
                                           \/ p.cursor # page.cursor}
           all == Append(Filter(cache, others), page)
           first == Len(all) - MaxCachedPages + 1
           start == IF first > 1 THEN first ELSE 1
<1>1. all \in Seq(T)
    <2> HIDE DEF others
    <2>1. Filter(cache, others) \in Seq(T \cap others)
        BY FilterKeeps
    <2>2. Filter(cache, others) \in Seq(T)
        BY <2>1, SeqMonotonic
    <2> QED
        BY <2>2, AppendProperties
<1>2. Touched(cache, page) = SubSeq(all, start, Len(all))
    BY DEF Touched
<1> HIDE DEF all
<1>3. Len(all) \in Nat /\ start \in Nat \ {0}
    BY <1>1, LenProperties, WorkspaceAssumption
<1>4. \A i \in start .. Len(all) : all[i] \in T
    BY <1>1, <1>3, ElementOfSeq
<1> HIDE DEF start
<1> QED
    BY <1>2, <1>3, <1>4, SubSeqProperties

LEMMA ActivateView ==
    ASSUME ViewInv, UNCHANGED <<sessionVars, untold>>, ui.scan # NoScan,
           NEW cursor \in AnyCursor, NEW index \in Nat,
           NEW history \in Seq(AnyCursor), index < Len(history),
           Activate(cursor, index, history)
    PROVE  ViewInv'
<1>1. /\ ui \in Ui /\ Reached(ui) /\ ui.scan \in AnyScan
      /\ ui.cache \in Seq(PageRecord)
    BY ShownScan DEF ViewInv, Sound, Ui
<1>2. CASE Cached(ui, cursor) # {}
    <2>1. PICK i \in Cached(ui, cursor) : i = CHOOSE j \in Cached(ui, cursor) : TRUE
        BY <1>2
    <2>2. PICK page : page = ui.cache[i]
        OBVIOUS
    <2>3. page \in PageRecord
        BY <1>1, <2>1, <2>2, LenProperties, ElementOfSeq DEF Cached
    <2>4. PICK cache \in Seq(PageRecord) : cache = Touched(ui.cache, page)
        BY <1>1, <2>3, TouchedType
    <2>5. PICK p \in Optional(PageRecord) : p = [present |-> TRUE, value |-> page]
        BY <2>3 DEF Optional
    <2>6. PICK e \in Codes \cup {"none"} :
             e = IF cursor = FirstPage THEN ui.error ELSE "none"
        BY <1>1 DEF Ui
    <2>7. PICK u : u = [ui EXCEPT !.index = index, !.history = history,
                                  !.cache = cache, !.page = p, !.error = e]
        OBVIOUS
    <2>8. u \in Ui
        BY <1>1, <2>7 DEF Ui
    <2>9. /\ u.scan = ui.scan /\ u.selection = ui.selection
          /\ u.index = index /\ u.history = history
        BY <1>1, <2>7 DEF Ui
    <2>10. Reached(u)
        BY <2>9 DEF Reached
    <2>11. ui' = u /\ UNCHANGED <<queue, flight>>
        BY <1>2, <2>1, <2>2, <2>4, <2>5, <2>6, <2>7 DEF Activate
    <2>12. /\ SessionsOK' /\ Sound(u, sessions')
           /\ flight # Idle => Flying(flight, u, sessions')
        BY <2>8, <2>9, <2>10, SameKnowledge
    <2> QED
        BY <2>9, <2>11, <2>12 DEF ViewInv
<1>3. CASE Cached(ui, cursor) = {}
    <2>1. PICK task : task = PageTask(ui, "page", cursor, index, history)
        OBVIOUS
    <2>2. /\ task \in PageTasks /\ task.scan = ui.scan
          /\ task.index = index /\ task.history = history
        BY <1>1, <2>1 DEF PageTask, PageTasks, Ui
    <2>3. task \in WaitingFor(ui.scan)
        BY <2>2 DEF WaitingFor, Reached
    <2>4. PICK u : u = [ui EXCEPT !.phase = "loading", !.error = "none"]
        OBVIOUS
    <2>5. u \in Ui
        BY <1>1, <2>4 DEF Ui
    <2>6. /\ u.scan = ui.scan /\ u.selection = ui.selection
          /\ u.index = ui.index /\ u.history = ui.history
        BY <1>1, <2>4 DEF Ui
    <2>7. Reached(u)
        BY <1>1, <2>6 DEF Reached
    <2>8. Turn(u, Enqueued(queue, task))
        BY <1>3, <2>1, <2>4 DEF Activate
    <2> QED
        BY <2>3, <2>5, <2>6, <2>7, <2>8, UserTurn
<1> QED
    BY <1>2, <1>3

LEMMA NextPageView ==
    ASSUME ViewInv, NextPage
    PROVE  ViewInv'
<1>1. /\ ui \in Ui /\ Reached(ui) /\ ui.page.present /\ ui.scan # NoScan
      /\ ui.index \in Nat /\ ui.history \in Seq(AnyCursor)
      /\ ui.page \in Optional(PageRecord)
    BY DEF ViewInv, Sound, Blank, Ui, NextPage, Navigable
<1>2. ui.page.value.next \in AnyCursor
    BY <1>1, OptionalValue DEF PageRecord
<1>3. PICK before : before = SubSeq(ui.history, 1, ui.index + 1)
    OBVIOUS
<1>4. before \in Seq(AnyCursor) /\ Len(before) = ui.index + 1
    <2>1. ui.index + 1 <= Len(ui.history) /\ Len(ui.history) \in Nat
        BY <1>1, LenProperties DEF Reached
    <2>2. \A i \in 1 .. ui.index + 1 : ui.history[i] \in AnyCursor
        BY <1>1, <2>1, ElementOfSeq
    <2> QED
        BY <1>1, <1>3, <2>2, SubSeqProperties
<1>5. PICK history : history = Append(before, ui.page.value.next)
    OBVIOUS
<1>6. history \in Seq(AnyCursor) /\ ui.index + 1 < Len(history)
    BY <1>1, <1>2, <1>4, <1>5, AppendProperties
<1>7. Activate(ui.page.value.next, ui.index + 1, history)
    BY <1>3, <1>5 DEF NextPage
<1>8. UNCHANGED <<sessionVars, untold>>
    BY DEF NextPage
<1> QED
    BY <1>1, <1>2, <1>6, <1>7, <1>8, ActivateView

LEMMA PreviousPageView ==
    ASSUME ViewInv, PreviousPage
    PROVE  ViewInv'
<1>1. /\ ui \in Ui /\ Reached(ui) /\ ui.scan # NoScan
      /\ ui.index \in Nat /\ ui.history \in Seq(AnyCursor) /\ ui.index > 0
    BY DEF ViewInv, Sound, Blank, Ui, PreviousPage, Navigable
<1>2. ui.index < Len(ui.history) /\ Len(ui.history) \in Nat
    BY <1>1, LenProperties DEF Reached
<1>3. ui.history[ui.index] \in AnyCursor
    BY <1>1, <1>2, ElementOfSeq
<1>4. ui.index - 1 \in Nat /\ ui.index - 1 < Len(ui.history)
    BY <1>1, <1>2
<1>5. /\ Activate(ui.history[ui.index], ui.index - 1, ui.history)
      /\ UNCHANGED <<sessionVars, untold>>
    BY DEF PreviousPage
<1> QED
    BY <1>1, <1>3, <1>4, <1>5, ActivateView

LEMMA ClickSelectionView ==
    ASSUME ViewInv, NEW operation \in Operations, ClickSelection(operation)
    PROVE  ViewInv'
<1>1. /\ ui \in Ui /\ Reached(ui) /\ ui.scan # NoScan
    BY DEF ViewInv, Sound, Blank, ClickSelection
<1>2. PICK task : task = SelectionTask(ui, operation)
    OBVIOUS
<1>3. task \in WaitingFor(ui.scan)
    BY <1>1, <1>2, ShownScan DEF SelectionTask, WaitingFor, SelectionTasks
<1>4. PICK u : u = [ui EXCEPT !.updating = TRUE, !.error = "none"]
    OBVIOUS
<1>5. u \in Ui
    BY <1>1, <1>4 DEF Ui
<1>6. /\ u.scan = ui.scan /\ u.selection = ui.selection
      /\ u.index = ui.index /\ u.history = ui.history
    BY <1>1, <1>4 DEF Ui
<1>7. Reached(u)
    BY <1>1, <1>6 DEF Reached
<1>8. Turn(u, Enqueued(queue, task)) /\ UNCHANGED <<sessionVars, untold>>
    BY <1>2, <1>4 DEF ClickSelection
<1> QED
    BY <1>3, <1>5, <1>6, <1>7, <1>8, UserTurn

-----------------------------------------------------------------------------
(* The answers.                                                            *)

(* The end of a flight, in a view that knows as much as before.            *)
LEMMA SettledTurn ==
    ASSUME ViewInv, UNCHANGED <<sessionVars, untold>>, NEW u, Sound(u, sessions),
           u.scan = ui.scan, Pump(u, queue)
    PROVE  ViewInv'
<1>1. SessionsOK' /\ untold' \in BOOLEAN /\ sessions' = sessions
    BY DEF ViewInv, SessionsOK, sessionVars
<1>2. queue \in Seq(WaitingFor(u.scan))
    BY DEF ViewInv
<1>3. Sound(u, sessions')
    BY <1>1
<1> QED
    BY <1>1, <1>2, <1>3, PumpStep

LEMMA FailedSound ==
    ASSUME ViewInv, ui.scan # NoScan, NEW code \in Codes
    PROVE  Sound(FailedWith(ui, code), sessions)
           /\ FailedWith(ui, code).scan = ui.scan
<1>1. ui \in Ui /\ Reached(ui)
    BY DEF ViewInv, Sound
<1>2. PICK phase \in {"ready", "error"} :
         phase = IF ui.page.present THEN "ready" ELSE "error"
    OBVIOUS
<1>3. PICK u : u = [ui EXCEPT !.phase = phase, !.updating = FALSE, !.error = code]
    OBVIOUS
<1>4. u \in Ui
    BY <1>1, <1>3 DEF Ui
<1>5. /\ u.scan = ui.scan /\ u.selection = ui.selection
      /\ u.index = ui.index /\ u.history = ui.history
    BY <1>1, <1>3 DEF Ui
<1>6. Sound(u, sessions)
    BY <1>1, <1>4, <1>5 DEF ViewInv, Sound, Reached
<1>7. u = FailedWith(ui, code)
    BY <1>2, <1>3 DEF FailedWith
<1> QED
    BY <1>5, <1>6, <1>7

LEMMA RecoverView ==
    ASSUME ViewInv, UNCHANGED <<sessionVars, untold>>, ui.scan # NoScan, Recover(ui)
    PROVE  ViewInv'
<1>1. ui \in Ui /\ Reached(ui)
    BY DEF ViewInv, Sound
<1>2. PICK u : u = Recovering(ui)
    OBVIOUS
<1>3. /\ <<FirstPage>> \in Seq(AnyCursor) /\ <<>> \in Seq(PageRecord)
      /\ Absent \in Optional(PageRecord)
    BY DEF AnyCursor, Optional
<1>4. u \in Ui
    BY <1>1, <1>2, <1>3 DEF Ui, Recovering
<1>5. /\ u.scan = ui.scan /\ u.selection = ui.selection
      /\ u.index = 0 /\ u.history = <<FirstPage>>
    BY <1>1, <1>2 DEF Ui, Recovering
<1>6. Sound(u, sessions')
    BY <1>4, <1>5 DEF ViewInv, Sound, Reached, sessionVars
<1>7. FreshQuery(u) \in WaitingFor(u.scan)
    BY <1>4, <1>5, ShownScan, FreshTask
<1>8. PICK tasks : tasks = Enqueued(queue, FreshQuery(u))
    OBVIOUS
<1>9. tasks \in Seq(WaitingFor(u.scan))
    BY <1>5, <1>7, <1>8, EnqueuedType DEF ViewInv
<1>10. SessionsOK' /\ untold' \in BOOLEAN
    BY DEF ViewInv, SessionsOK, sessionVars
<1>11. Pump(u, tasks)
    BY <1>2, <1>8 DEF Recover
<1> QED
    BY <1>6, <1>9, <1>10, <1>11, PumpStep

(* The selection that comes with an answer for the scan that is shown.     *)
LEMMA AnswerTells ==
    ASSUME ViewInv, flight # Idle, flight.at = "answered",
           flight.task.scan = ui.scan, flight.answer.outcome \in {"page", "updated"},
           NEW s \in Scans, ui.scan = Scan(s)
    PROVE  Informed(flight.answer.selection, sessions[s])
BY DEF ViewInv, Sound, Flying, FlightOf

LEMMA AppliedSound ==
    ASSUME ViewInv, flight # Idle, flight.at = "answered",
           flight.call.call = "page", flight.answer.outcome = "page",
           flight.task.scan = ui.scan
    PROVE  /\ Sound(Applied(flight.task, flight.answer), sessions)
           /\ Applied(flight.task, flight.answer).scan = ui.scan
<1>1. /\ ui \in Ui /\ ui.cache \in Seq(PageRecord)
    BY DEF ViewInv, Sound, Ui
<1>2. /\ flight.task \in PageTasks /\ Reached(flight.task)
      /\ flight.answer \in PageAnswers \cup Errors
    BY FlightShape DEF PageFlight
<1>3. flight.answer \in PageAnswers
    BY <1>2 DEF Errors, Codes
<1>4. PICK page : page = Page(flight.answer)
    OBVIOUS
<1>5. page \in PageRecord
    BY <1>3, <1>4 DEF Page, PageAnswers, PageRecord
<1>6. flight.answer.selection \in Selection
    BY <1>3 DEF PageAnswers
<1>7. PICK cache \in Seq(PageRecord) : cache = Touched(ui.cache, page)
    BY <1>1, <1>5, TouchedType
<1>8. PICK p \in Optional(PageRecord) : p = [present |-> TRUE, value |-> page]
    BY <1>5 DEF Optional
<1>9. PICK t \in Optional(Selection) :
         t = [present |-> TRUE, value |-> flight.answer.selection]
    BY <1>6 DEF Optional
<1>10. PICK u : u = [ui EXCEPT !.phase = "ready", !.index = flight.task.index,
                       !.history = flight.task.history, !.cache = cache,
                       !.page = p, !.selection = t,
                       !.updating = FALSE, !.error = "none"]
    OBVIOUS
<1>11. u = Applied(flight.task, flight.answer)
    BY <1>4, <1>7, <1>8, <1>9, <1>10 DEF Applied
<1>12. u \in Ui
    BY <1>1, <1>2, <1>10 DEF Ui, PageTasks
<1>13. /\ u.scan = ui.scan /\ u.selection = t
       /\ u.index = flight.task.index /\ u.history = flight.task.history
    BY <1>1, <1>10 DEF Ui
<1>14. Reached(u)
    BY <1>2, <1>13 DEF Reached
<1>15. u.scan # NoScan
    BY <1>2, <1>13, ScanIsItsScan DEF PageTasks, AnyScan
<1>16. t.value = flight.answer.selection
    BY <1>9
<1>17. Sound(u, sessions)
    BY <1>12, <1>13, <1>14, <1>15, <1>16, AnswerTells DEF Sound, ViewInv
<1> QED
    BY <1>11, <1>13, <1>17

LEMMA FlightScan ==
    ASSUME ViewInv, flight # Idle, flight.task.scan = ui.scan
    PROVE  ui.scan # NoScan
BY FlightShape, ScanIsItsScan

LEMMA SettlePageView ==
    ASSUME ViewInv, SettlePage
    PROVE  ViewInv'
<1>1. /\ flight # Idle /\ flight.at = "answered" /\ flight.call.call = "page"
      /\ UNCHANGED <<sessionVars, untold>>
    BY DEF SettlePage, Idle
<1>2. flight.answer \in PageAnswers \cup Errors
    BY <1>1, FlightShape DEF PageFlight
<1>3. CASE ~Current(flight.task) /\ Pump(ui, queue)
    BY <1>1, <1>3, SettledTurn DEF ViewInv
<1>4. CASE Current(flight.task)
    <2>1. flight.task.scan = ui.scan /\ ui.scan # NoScan
        BY <1>1, <1>4, FlightScan DEF Current
    <2>2. CASE /\ flight.answer.outcome = "page"
               /\ Pump(IF Regresses(flight.answer) THEN FailedWith(ui, "incompatible")
                       ELSE Applied(flight.task, flight.answer), queue)
        <3>1. CASE Regresses(flight.answer)
            <4>1. PICK u : u = FailedWith(ui, "incompatible")
                OBVIOUS
            <4>2. Sound(u, sessions) /\ u.scan = ui.scan
                BY <2>1, <4>1, FailedSound DEF Codes
            <4>3. Pump(u, queue)
                BY <2>2, <3>1, <4>1
            <4> QED
                BY <1>1, <4>2, <4>3, SettledTurn
        <3>2. CASE ~Regresses(flight.answer)
            <4>1. PICK u : u = Applied(flight.task, flight.answer)
                OBVIOUS
            <4>2. Sound(u, sessions) /\ u.scan = ui.scan
                BY <1>1, <2>1, <2>2, <4>1, AppliedSound
            <4>3. Pump(u, queue)
                BY <2>2, <3>2, <4>1
            <4> QED
                BY <1>1, <4>2, <4>3, SettledTurn
        <3> QED
            BY <3>1, <3>2
    <2>3. CASE Recover(ui)
        BY <1>1, <2>1, <2>3, RecoverView
    <2>4. CASE /\ flight.answer.outcome # "page"
               /\ Pump(FailedWith(ui, flight.answer.outcome), queue)
        <3>1. flight.answer.outcome \in Codes
            BY <1>2, <2>4 DEF PageAnswers, Errors
        <3>2. PICK u : u = FailedWith(ui, flight.answer.outcome)
            OBVIOUS
        <3>3. Sound(u, sessions) /\ u.scan = ui.scan
            BY <2>1, <3>1, <3>2, FailedSound
        <3> QED
            BY <1>1, <2>4, <3>2, <3>3, SettledTurn
    <2> QED
        BY <1>4, <2>2, <2>3, <2>4 DEF SettlePage
<1> QED
    BY <1>3, <1>4 DEF SettlePage

LEMMA SelectionShownSound ==
    ASSUME ViewInv, flight # Idle, flight.at = "answered",
           flight.call.call = "update", flight.answer.outcome = "updated",
           flight.task.scan = ui.scan
    PROVE  /\ Sound(SelectionShown(flight.answer), sessions)
           /\ SelectionShown(flight.answer).scan = ui.scan
<1>1. ui \in Ui /\ Reached(ui) /\ ui.scan # NoScan
    BY FlightScan DEF ViewInv, Sound
<1>2. flight.answer \in UpdateAnswers \cup Errors
    BY FlightShape DEF UpdateFlight
<1>3. flight.answer.selection \in Selection
    BY <1>2 DEF UpdateAnswers, Errors, Codes
<1>4. PICK t \in Optional(Selection) :
         t = [present |-> TRUE, value |-> flight.answer.selection]
    BY <1>3 DEF Optional
<1>5. PICK u : u = [ui EXCEPT !.selection = t, !.cache = <<>>, !.error = "none"]
    OBVIOUS
<1>6. u = SelectionShown(flight.answer)
    BY <1>4, <1>5 DEF SelectionShown
<1>7. <<>> \in Seq(PageRecord)
    OBVIOUS
<1>8. u \in Ui
    BY <1>1, <1>5, <1>7 DEF Ui
<1>9. /\ u.scan = ui.scan /\ u.selection = t
      /\ u.index = ui.index /\ u.history = ui.history
    BY <1>1, <1>5 DEF Ui
<1>10. Reached(u)
    BY <1>1, <1>9 DEF Reached
<1>11. t.value = flight.answer.selection
    BY <1>4
<1>12. Sound(u, sessions)
    BY <1>1, <1>8, <1>9, <1>10, <1>11, AnswerTells DEF Sound, ViewInv
<1> QED
    BY <1>6, <1>9, <1>12

(* The page that is read again.                                            *)
LEMMA RefreshView ==
    ASSUME ViewInv, UNCHANGED <<sessionVars, untold>>, NEW u, Sound(u, sessions),
           u.scan = ui.scan, u.scan # NoScan, UpdateFlight(flight), Refresh(u)
    PROVE  ViewInv'
<1>1. /\ u \in Ui /\ Reached(u) /\ u.scan \in AnyScan
    BY DEF Sound, Ui
<1>2. flight.origin \in AnyCursor
    BY DEF UpdateFlight
<1>3. PICK task : task = IF u.query.selectedOnly
                         THEN PageTask(u, "page", FirstPage, 0, <<FirstPage>>)
                         ELSE PageTask(u, "page", flight.origin, u.index, u.history)
    OBVIOUS
<1>4. FirstPage \in AnyCursor /\ <<FirstPage>> \in Seq(AnyCursor)
    BY DEF AnyCursor
<1>5. task \in PageTasks /\ task.scan = u.scan /\ Reached(task)
    <2>1. CASE u.query.selectedOnly
        <3>1. task = [kind |-> "page", scan |-> u.scan, query |-> u.query,
                      sort |-> u.sort, cursor |-> FirstPage, index |-> 0,
                      history |-> <<FirstPage>>]
            BY <1>3, <2>1 DEF PageTask
        <3> QED
            BY <1>1, <1>4, <3>1 DEF PageTasks, Ui, Reached
    <2>2. CASE ~u.query.selectedOnly
        <3>1. task = [kind |-> "page", scan |-> u.scan, query |-> u.query,
                      sort |-> u.sort, cursor |-> flight.origin,
                      index |-> u.index, history |-> u.history]
            BY <1>3, <2>2 DEF PageTask
        <3> QED
            BY <1>1, <1>2, <3>1 DEF PageTasks, Ui, Reached
    <2> QED
        BY <2>1, <2>2
<1>6. PICK v : v = IF u.query.selectedOnly
                   THEN [u EXCEPT !.phase = "loading", !.index = 0,
                                  !.history = <<FirstPage>>, !.page = Absent]
                   ELSE u
    OBVIOUS
<1>7. /\ v \in Ui /\ Reached(v) /\ v.scan = u.scan /\ v.selection = u.selection
    <2>1. CASE u.query.selectedOnly
        <3>1. v = [u EXCEPT !.phase = "loading", !.index = 0,
                            !.history = <<FirstPage>>, !.page = Absent]
            BY <1>6, <2>1
        <3>2. Absent \in Optional(PageRecord)
            BY DEF Optional
        <3>3. v \in Ui
            BY <1>1, <1>4, <3>1, <3>2 DEF Ui
        <3>4. /\ v.scan = u.scan /\ v.selection = u.selection
              /\ v.index = 0 /\ v.history = <<FirstPage>>
            BY <1>1, <3>1 DEF Ui
        <3> QED
            BY <3>3, <3>4 DEF Reached
    <2>2. CASE ~u.query.selectedOnly
        BY <1>1, <1>6, <2>2
    <2> QED
        BY <2>1, <2>2
<1>8. Sound(v, sessions)
    BY <1>7 DEF Sound
<1>9. PICK f : f = Started(u, task)
    OBVIOUS
<1>10. Flying(f, u, sessions)
    BY <1>5, <1>9, PageFlies
<1>11. Flying(f, v, sessions)
    BY <1>7, <1>10 DEF Flying, FlightOf
<1>12. ui' = v /\ flight' = f /\ queue' = queue
    BY <1>3, <1>6, <1>9 DEF Refresh
<1>13. sessions' = sessions /\ SessionsOK' /\ untold' \in BOOLEAN
    BY DEF ViewInv, SessionsOK, sessionVars
<1> QED
    BY <1>7, <1>8, <1>11, <1>12, <1>13 DEF ViewInv

LEMMA SettleSelectionView ==
    ASSUME ViewInv, SettleSelection
    PROVE  ViewInv'
<1>1. /\ flight # Idle /\ flight.at = "answered" /\ flight.call.call = "update"
      /\ UNCHANGED <<sessionVars, untold>>
    BY DEF SettleSelection, Idle
<1>2. UpdateFlight(flight) /\ flight.answer \in UpdateAnswers \cup Errors
    BY <1>1, FlightShape DEF UpdateFlight
<1>3. CASE flight.task.scan # ui.scan /\ Pump(ui, queue)
    BY <1>1, <1>3, SettledTurn DEF ViewInv
<1>4. CASE flight.task.scan = ui.scan
    <2>1. ui.scan # NoScan
        BY <1>1, <1>4, FlightScan
    <2>2. CASE flight.answer.outcome = "updated"
        <3>1. PICK u : u = SelectionShown(flight.answer)
            OBVIOUS
        <3>2. Sound(u, sessions) /\ u.scan = ui.scan
            BY <1>1, <1>4, <2>2, <3>1, SelectionShownSound
        <3>3. Refresh(u) \/ Pump(u, queue)
            BY <1>4, <2>2, <3>1 DEF SettleSelection
        <3>4. CASE Refresh(u)
            BY <1>1, <1>2, <2>1, <3>2, <3>4, RefreshView
        <3>5. CASE Pump(u, queue)
            BY <1>1, <3>2, <3>5, SettledTurn
        <3> QED
            BY <3>3, <3>4, <3>5
    <2>3. CASE Recover(ui)
        BY <1>1, <2>1, <2>3, RecoverView
    <2>4. CASE /\ flight.answer.outcome # "updated"
               /\ Pump(FailedWith(ui, flight.answer.outcome), queue)
        <3>1. flight.answer.outcome \in Codes
            BY <1>2, <2>4 DEF UpdateAnswers, Errors
        <3>2. PICK u : u = FailedWith(ui, flight.answer.outcome)
            OBVIOUS
        <3>3. Sound(u, sessions) /\ u.scan = ui.scan
            BY <2>1, <3>1, <3>2, FailedSound
        <3> QED
            BY <1>1, <2>4, <3>2, <3>3, SettledTurn
    <2> QED
        BY <1>4, <2>2, <2>3, <2>4 DEF SettleSelection
<1> QED
    BY <1>3, <1>4 DEF SettleSelection

-----------------------------------------------------------------------------
(* The theorems.                                                           *)

LEMMA ViewInit == Init => ViewInv
<1> SUFFICES ASSUME Init PROVE ViewInv
    OBVIOUS
<1>1. /\ sessions = [s \in Scans |-> NewSession] /\ order = <<>>
      /\ queue = <<>> /\ flight = Idle /\ untold = FALSE /\ ui = InitialUi(NoScan)
    BY DEF Init, SessionInit
<1>2. NewSession \in Session
    BY SessionAssumption DEF NewSession, Session
<1>3. SessionsOK
    BY <1>1, <1>2 DEF SessionsOK
<1>4. Sound(ui, sessions)
    BY <1>1, FreshUi, ScanIsItsScan
<1> QED
    BY <1>1, <1>3, <1>4, EmptySeq DEF ViewInv

LEMMA ViewStep == ViewInv /\ [Next]_vars => ViewInv'
<1> SUFFICES ASSUME ViewInv, [Next]_vars PROVE ViewInv'
    OBVIOUS
<1>1. CASE UNCHANGED vars
    BY <1>1 DEF ViewInv, SessionsOK, vars, sessionVars, uiVars
<1>2. CASE HideScan
    BY <1>2, HideScanView
<1>3. CASE \E s \in Scans : ShowScan(s)
    BY <1>3, ShowScanView
<1>4. CASE \E filter \in DOMAIN Filters, selectedOnly \in BOOLEAN,
              sort \in DOMAIN Ranking : ScheduleIntent(filter, selectedOnly, sort)
    BY <1>4, ScheduleIntentView
<1>5. CASE RefuseInput
    BY <1>5, RefuseInputView
<1>6. CASE NextPage
    BY <1>6, NextPageView
<1>7. CASE PreviousPage
    BY <1>7, PreviousPageView
<1>8. CASE \E operation \in Operations : ClickSelection(operation)
    BY <1>8, ClickSelectionView
<1>9. CASE NativeCall
    BY <1>9, NativeCallView
<1>10. CASE SettlePage
    BY <1>10, SettlePageView
<1>11. CASE SettleSelection
    BY <1>11, SettleSelectionView
<1> QED
    BY <1>1, <1>2, <1>3, <1>4, <1>5, <1>6, <1>7, <1>8, <1>9, <1>10, <1>11
    DEF Next, User, System

LEMMA ViewHolds == Spec => []ViewInv
<1>1. Init => ViewInv
    BY ViewInit
<1>2. ViewInv /\ [Next]_vars => ViewInv'
    BY ViewStep
<1> QED
    BY <1>1, <1>2, PTL DEF Spec

(* The sessions change only where a scan is stored and in a native call.   *)
LEMMA SessionsChange ==
    ASSUME [Next]_vars
    PROVE  \/ UNCHANGED sessionVars
           \/ \E s \in Scans : StoreSession(s)
           \/ NativeCall
<1>1. CASE UNCHANGED vars
    BY <1>1 DEF vars
<1>2. CASE NativeCall \/ \E s \in Scans : ShowScan(s)
    BY <1>2 DEF ShowScan
<1>3. CASE HideScan \/ RefuseInput \/ NextPage \/ PreviousPage
           \/ SettlePage \/ SettleSelection
    BY <1>3, Zenon DEF HideScan, RefuseInput, NextPage, PreviousPage, SettlePage,
       SettleSelection
<1>4. CASE \E filter \in DOMAIN Filters, selectedOnly \in BOOLEAN,
              sort \in DOMAIN Ranking : ScheduleIntent(filter, selectedOnly, sort)
    BY <1>4, Zenon DEF ScheduleIntent
<1>5. CASE \E operation \in Operations : ClickSelection(operation)
    BY <1>5, Zenon DEF ClickSelection
<1> QED
    BY <1>1, <1>2, <1>3, <1>4, <1>5 DEF Next, User, System

(* What a native call does to the sessions: nothing, or it reads a page of *)
(* one, or changes the selection of one as it was asked to.                *)
LEMMA CallStep ==
    ASSUME ViewInv, NativeCall
    PROVE  \/ UNCHANGED sessionVars
           \/ /\ order' = order /\ sessions' \in [Scans -> Session]
              /\ \A t \in Scans : /\ sessions'[t].kept = sessions[t].kept
                                  /\ sessions'[t].selected = sessions[t].selected
                                  /\ sessions'[t].revision = sessions[t].revision
           \/ \E s \in Scans, chosen \in SUBSET Candidates :
              /\ order' = order /\ sessions' \in [Scans -> Session]
              /\ flight.task.scan = Scan(s) /\ flight.call.call = "update"
              /\ flight.at = "sent" /\ flight # Idle
              /\ Kept(s) /\ sessions[s].revision = flight.call.expected
              /\ sessions[s].revision # MaxRevision
              /\ sessions'[s].kept = sessions[s].kept
              /\ sessions'[s].selected = chosen
              /\ sessions'[s].revision = sessions[s].revision + 1
              /\ \A t \in Scans : t # s => sessions'[t] = sessions[t]
<1>1. flight # Idle /\ flight.at = "sent" /\ SessionsOK
    BY DEF NativeCall, Idle, ViewInv
<1>2. PICK s \in Scans : flight.task.scan = Scan(s)
    BY <1>1, FlightShape
<1>3. Execute(s, flight.call) \/ UNCHANGED sessionVars
    BY <1>2, ScanIsItsScan DEF NativeCall
<1>4. CASE Execute(s, flight.call) /\ flight.call.call = "page"
    <2>1. /\ flight.call.query \in Query /\ flight.call.sort \in DOMAIN Ranking
          /\ flight.call.cursor \in AnyCursor
        BY <1>1, <1>4, FlightShape
    <2>2. QueryCandidatePage(s, flight.call.query, flight.call.sort,
                             flight.call.cursor)
        BY <1>4 DEF Execute
    <2>3. order' = order
        BY <2>2 DEF QueryCandidatePage
    <2> QED
        BY <1>1, <2>1, <2>2, <2>3, ReadStep DEF SessionsOK
<1>5. CASE Execute(s, flight.call) /\ flight.call.call # "page"
    <2>1. flight.call \in UpdateCalls /\ flight.call.call = "update"
        BY <1>1, <1>5, FlightShape
    <2>2. UpdateCandidateSelection(s, flight.call.query, flight.call.operation,
                                   flight.call.expected)
        BY <1>5 DEF Execute
    <2>3. order' = order
        BY <2>2 DEF UpdateCandidateSelection
    <2>4. CASE sessions' = sessions
        BY <2>3, <2>4 DEF sessionVars
    <2>5. CASE sessions' # sessions
        <3>1. PICK chosen : chosen = Proposed(sessions[s], flight.call.operation)
            OBVIOUS
        <3>2. chosen \in SUBSET Candidates
            BY <1>1, <2>1, <3>1, ProposedType DEF SessionsOK, UpdateCalls
        <3>3. /\ sessions' \in [Scans -> Session]
              /\ Kept(s) /\ sessions[s].revision = flight.call.expected
              /\ sessions[s].revision # MaxRevision
              /\ sessions'[s].kept = sessions[s].kept
              /\ sessions'[s].selected = chosen
              /\ sessions'[s].revision = sessions[s].revision + 1
              /\ \A t \in Scans : t # s => sessions'[t] = sessions[t]
            BY <1>1, <2>1, <2>2, <2>5, <3>1, UpdateStep DEF SessionsOK
        <3> QED
            BY <1>1, <1>2, <2>1, <2>3, <3>2, <3>3
    <2> QED
        BY <2>4, <2>5
<1> QED
    BY <1>3, <1>4, <1>5

(* An update takes effect only on the selection that the user is shown,    *)
(* whatever was lost, and whatever waited in the queue.                    *)
THEOREM UpdatesMeanWhatIsShown == Spec => UpdatesAreInformed
<1> DEFINE InformedStep ==
        \A s \in Scans :
           /\ sessions'[s].selected # sessions[s].selected
           /\ sessions'[s].kept = "kept" /\ ui.scan = Scan(s)
           => ui.selection.value.selected = sessions[s].selected
<1>1. ViewInv /\ [Next]_vars => InformedStep
    <2> SUFFICES ASSUME ViewInv, [Next]_vars, NEW s \in Scans,
                        sessions'[s].selected # sessions[s].selected,
                        sessions'[s].kept = "kept", ui.scan = Scan(s)
                 PROVE  ui.selection.value.selected = sessions[s].selected
        OBVIOUS
    <2>1. CASE UNCHANGED sessionVars
        BY <2>1 DEF sessionVars
    <2>2. ASSUME NEW t \in Scans, StoreSession(t) PROVE FALSE
        <3>1. sessions[t] \in Session /\ sessions[s] \in Session /\ SessionsOK
            BY DEF ViewInv, SessionsOK
        <3>2. CASE s = t
            <4>1. sessions'[t] = [sessions[t] EXCEPT !.kept = "kept"]
                BY <2>2, <3>1, StoreStep
            <4> QED
                BY <3>1, <3>2, <4>1 DEF Session
        <3>3. CASE s # t
            <4>1. sessions'[s] = sessions[s] \/ sessions'[s] = Evicted
                BY <2>2, <3>1, <3>3, StoreStep
            <4> QED
                BY <4>1 DEF Evicted, NewSession
        <3> QED
            BY <3>2, <3>3
    <2>3. CASE NativeCall
        <3>1. PICK t \in Scans :
                 /\ flight.task.scan = Scan(t) /\ flight.call.call = "update"
                 /\ flight.at = "sent" /\ flight # Idle
                 /\ sessions[t].revision = flight.call.expected
                 /\ \A r \in Scans : r # t => sessions'[r] = sessions[r]
            BY <2>3, CallStep, Zenon DEF sessionVars
        <3>2. t = s
            BY <3>1
        <3>3. /\ ui.selection.present
              /\ ui.selection.value.revision = flight.call.expected
            BY <3>1, <3>2 DEF ViewInv, Flying, FlightOf
        <3>4. Informed(ui.selection.value, sessions[s])
            BY <3>3 DEF ViewInv, Sound
        <3> QED
            BY <3>1, <3>2, <3>3, <3>4 DEF Informed
    <2> QED
        BY <2>1, <2>2, <2>3, SessionsChange
<1>2. Spec => []ViewInv
    BY ViewHolds
<1> QED
    BY <1>1, <1>2, PTL DEF Spec, UpdatesAreInformed

(* The sessions as the coordinator sees them.                              *)
Seen == [s \in Scans |-> [kept     |-> sessions[s].kept,
                          selected |-> sessions[s].selected,
                          revision |-> sessions[s].revision]]

LEMMA SeenEqual ==
    ASSUME \A s \in Scans : /\ sessions'[s].kept = sessions[s].kept
                            /\ sessions'[s].selected = sessions[s].selected
                            /\ sessions'[s].revision = sessions[s].revision
    PROVE  Seen' = Seen
BY DEF Seen

LEMMA StoreIsStore ==
    ASSUME ViewInv, NEW s \in Scans, StoreSession(s)
    PROVE  Store!StoreSession(s)
<1>1. /\ SessionsOK /\ sessions \in [Scans -> Session]
      /\ sessions[s].kept = "new" /\ SessionsOK'
    BY StoreStep DEF ViewInv, SessionsOK
<1>2. Seen[s].kept = "new"
    BY <1>1 DEF Seen
<1>3. PICK e : e = [kept |-> "evicted", selected |-> {}, revision |-> 0]
    OBVIOUS
<1>4. Store!Evicted = e
    BY <1>3 DEF Store!Evicted, Store!NewSession
<1>5. Evicted.kept = "evicted" /\ Evicted.selected = {} /\ Evicted.revision = 0
    BY DEF Evicted, NewSession
<1>6. CASE Len(order) < MaxScans
    <2>1. sessions' = [sessions EXCEPT ![s].kept = "kept"] /\ order' = Append(order, s)
        BY <1>6 DEF StoreSession
    <2>2. Seen' = [Seen EXCEPT ![s].kept = "kept"]
        BY <1>1, <2>1 DEF Seen, Session
    <2> QED
        BY <1>2, <1>6, <2>1, <2>2 DEF Store!StoreSession, Seen
<1>7. CASE ~(Len(order) < MaxScans)
    <2>1. /\ sessions' = [sessions EXCEPT ![s].kept = "kept", ![Head(order)] = Evicted]
          /\ order' = Append(Tail(order), s)
        BY <1>7 DEF StoreSession
    <2>2. Seen' = [Seen EXCEPT ![s].kept = "kept", ![Head(order)] = e]
        BY <1>1, <1>3, <1>5, <2>1 DEF Seen, Session
    <2> QED
        BY <1>2, <1>4, <1>7, <2>1, <2>2 DEF Store!StoreSession, Seen
<1> QED
    BY <1>6, <1>7

(* The results implement the store of selections that the restore          *)
(* coordinator takes for granted.                                          *)
THEOREM SessionsImplementTheStore == Spec => ImplementsSelectionStore
<1>1. Init => Store!StoreInit
    BY DEF Init, SessionInit, Store!StoreInit, NewSession, Store!NewSession
<1>2. ViewInv /\ [Next]_vars => [Store!StoreNext]_(Store!storeVars)
    <2> SUFFICES ASSUME ViewInv, [Next]_vars
                 PROVE  Store!StoreNext \/ UNCHANGED <<Seen, order>>
        BY DEF Store!storeVars, Seen
    <2>1. CASE UNCHANGED sessionVars
        BY <2>1 DEF sessionVars, Seen
    <2>2. CASE \E s \in Scans : StoreSession(s)
        BY <2>2, StoreIsStore DEF Store!StoreNext
    <2>3. CASE NativeCall
        <3>1. CASE /\ order' = order
                   /\ \A t \in Scans :
                         /\ sessions'[t].kept = sessions[t].kept
                         /\ sessions'[t].selected = sessions[t].selected
                         /\ sessions'[t].revision = sessions[t].revision
            BY <3>1, SeenEqual
        <3>2. ASSUME NEW s \in Scans, NEW chosen \in SUBSET Candidates,
                     order' = order, sessions' \in [Scans -> Session],
                     Kept(s), sessions[s].revision # MaxRevision,
                     sessions'[s].kept = sessions[s].kept,
                     sessions'[s].selected = chosen,
                     sessions'[s].revision = sessions[s].revision + 1,
                     \A t \in Scans : t # s => sessions'[t] = sessions[t]
              PROVE  Store!ChangeSelection(s, chosen)
            <4>1. sessions[s].revision \in 0 .. MaxRevision
                BY DEF ViewInv, SessionsOK, Session
            <4>2. /\ Seen[s].kept = "kept" /\ Seen[s].revision < MaxRevision
                BY <3>2, <4>1, SessionAssumption DEF Seen, Kept
            <4>3. Seen' = [Seen EXCEPT ![s].selected = chosen, ![s].revision = @ + 1]
                BY <3>2 DEF Seen
            <4> QED
                BY <3>2, <4>2, <4>3 DEF Store!ChangeSelection, Store!Kept, Seen
        <3> QED
            BY <2>1, <2>3, <3>1, <3>2, CallStep DEF Store!StoreNext
    <2> QED
        BY <2>1, <2>2, <2>3, SessionsChange
<1>3. Spec => []ViewInv
    BY ViewHolds
<1> QED
    BY <1>1, <1>2, <1>3, PTL DEF Spec, ImplementsSelectionStore, Store!StoreSpec

-----------------------------------------------------------------------------
(* What the pages show.                                                    *)

(* The rows that a query admits with a selection, and the page of them     *)
(* that starts after the first ones.                                       *)
Rows(query, sort, selected) ==
    Filter(Ranking[sort], {c \in Candidates : Matches(c, query, selected)})
PageAfter(rows, first) ==
    SubSeq(rows, first + 1,
           IF first + PageLimit < Len(rows) THEN first + PageLimit ELSE Len(rows))

(* A cursor is that of the page with this index.                           *)
At(cursor, index) == cursor.end = index * PageLimit
PathOK(v) == \A i \in 1 .. v.index + 1 : At(v.history[i], i - 1)
NextOK(p) == p.next # FirstPage => p.next.end = p.cursor.end + PageLimit

RowsOK(p, sort, selected) ==
    p.rows = PageAfter(Rows(p.query, sort, selected), p.cursor.end)
MarksOK(p, selected) == p.marked = selected \cap Range(p.rows)

(* A page that is kept, if it is of the query shown, is true to the        *)
(* selection that is shown, unless the answer to an update got lost.       *)
KeptTrue(p, u, lost) ==
    p.query.revision = u.query.revision =>
       /\ u.selection.present /\ p.query = u.query /\ NextOK(p)
       /\ ~lost => /\ RowsOK(p, u.sort, u.selection.value.selected)
                   /\ MarksOK(p, u.selection.value.selected)

(* So is the page that is shown, and it is in its place.                   *)
ShownTrue(u, lost) ==
    u.page.present =>
       /\ u.selection.present /\ u.page.value.query = u.query
       /\ At(u.page.value.cursor, u.index) /\ NextOK(u.page.value)
       /\ ~lost => RowsOK(u.page.value, u.sort, u.selection.value.selected)

TrueView(u, lost) ==
    /\ PathOK(u) /\ ShownTrue(u, lost)
    /\ \A i \in DOMAIN u.cache : KeptTrue(u.cache[i], u, lost)

(* At rest and without an error the check boxes are the selection.         *)
TrueMarks(u, lost) ==
    u.page.present /\ u.error = "none" /\ ~lost =>
       MarksOK(u.page.value, u.selection.value.selected)

(* A page task knows its place, and is not ahead of the view.              *)
Placed(t) == At(t.cursor, t.index) /\ PathOK(t)
NotAhead(t, u) ==
    t.scan = u.scan =>
       /\ t.query.revision <= u.query.revision
       /\ t.query.revision = u.query.revision => t.query = u.query /\ t.sort = u.sort

(* An update of the query that is shown still has its page and its place,  *)
(* and the controls are off.                                               *)
InPlace(f, u) ==
    f.task.scan = u.scan =>
       /\ f.call.query.revision <= u.query.revision
       /\ f.call.query.revision = u.query.revision =>
             /\ f.call.query = u.query /\ u.page.present /\ u.updating
             /\ u.phase # "loading" /\ At(f.origin, u.index)

(* A page that is answered is a page of what was asked for.                *)
AnswerTrue(a, call) ==
    /\ a.query = call.query /\ a.cursor = call.cursor /\ NextOK(a)
    /\ RowsOK(a, call.sort, a.selection.selected)
    /\ MarksOK(a, a.selection.selected)

FlightTrue(f, u) ==
    /\ f.call.call = "page" => Placed(f.task) /\ NotAhead(f.task, u)
    /\ f.call.call = "update" => InPlace(f, u)
    /\ f.at = "answered" /\ f.answer.outcome = "page" => AnswerTrue(f.answer, f.call)

OfTheQueryShown(f, u) ==
    f.task.scan = u.scan /\ f.call.query.revision = u.query.revision

(* At most the query that is shown waits, for a call that it made stale;   *)
(* what is shown waits for nothing but a call of its own, and while it     *)
(* does the controls are off.                                              *)
Orderly(u, q, f) ==
    /\ q = <<>> \/ (q = <<FreshQuery(u)>> /\ f # Idle /\ ~OfTheQueryShown(f, u))
    /\ u.page.present => q = <<>> /\ (f = Idle \/ OfTheQueryShown(f, u))
    /\ u.page.present /\ u.phase # "loading" /\ f # Idle => u.updating

(* Unless an answer got lost, the selection shown is that of the session,  *)
(* or comes with the answer under way; so does that of a page.             *)
Brings(f, s) ==
    /\ f # Idle /\ f.at = "answered" /\ f.task.scan = Scan(s)
    /\ f.answer.outcome = "updated"
Tells(f, s) ==
    /\ f # Idle /\ f.at = "answered" /\ f.task.scan = Scan(s)
    /\ f.answer.outcome \in {"page", "updated"}
InStep(u, f, s, session) ==
    /\ u.scan = Scan(s) /\ u.selection.present /\ ~Brings(f, s) =>
          u.selection.value = Told(session)
    /\ Tells(f, s) /\ session.kept = "kept" => f.answer.selection = Told(session)

PageTrue(u, q, f, ss, lost) ==
    /\ TrueView(u, lost)
    /\ f = Idle => TrueMarks(u, lost)
    /\ f # Idle => FlightTrue(f, u)
    /\ Orderly(u, q, f)
    /\ ~lost => \A s \in Scans : InStep(u, f, s, ss[s])

PageInv == PageTrue(ui, queue, flight, sessions, untold)

-----------------------------------------------------------------------------
(* Places and rows.                                                        *)

LEMMA NextPlace ==
    ASSUME NEW index \in Nat
    PROVE  (index + 1) * PageLimit = index * PageLimit + PageLimit
BY SessionAssumption

LEMMA FirstPlace == At(FirstPage, 0)
BY SessionAssumption DEF At, FirstPage

(* Where it is not about the selection a query admits the same rows.       *)
LEMMA SameRows ==
    ASSUME NEW query, ~query.selectedOnly, NEW sort, NEW selected, NEW other
    PROVE  Rows(query, sort, selected) = Rows(query, sort, other)
<1>1. {c \in Candidates : Matches(c, query, selected)}
         = {c \in Candidates : Matches(c, query, other)}
    BY DEF Matches
<1> QED
    BY <1>1 DEF Rows

(* A page that is answered is a page of what was asked for.                *)
LEMMA PageAnswerTrue ==
    ASSUME NEW s \in Scans, sessions[s] \in Session, NEW query \in Query,
           NEW sort \in DOMAIN Ranking, NEW cursor \in AnyCursor, NEW call,
           call.query = query, call.sort = sort, call.cursor = cursor,
           NEW a, a = PageAnswer(s, query, sort, cursor), a.outcome = "page"
    PROVE  AnswerTrue(a, call) /\ a.selection = Told(sessions[s])
<1> DEFINE session == sessions[s]
           listing == Listing(session, query, sort)
           end == PageEnd(listing, cursor)
           rows == SubSeq(listing, cursor.end + 1, end)
<1>1. Kept(s) /\ Accepts(session, query, sort, cursor)
    BY DEF PageAnswer, Error
<1>2. PICK m : m = {rows[i] : i \in DOMAIN rows} \cap session.selected
    OBVIOUS
<1>0. a = [outcome |-> "page", query |-> query, cursor |-> cursor,
            next |-> NextCursor(session, query, sort, cursor), rows |-> rows,
            marked |-> m, selection |-> Told(session)]
    BY <1>1, <1>2, Zenon DEF PageAnswer
<1>3. PICK l : l = listing
    OBVIOUS
<1>4. l = Rows(query, sort, session.selected) /\ l \in Seq(Candidates)
    BY <1>3, ListingType DEF Listing, Rows, Session
<1>5. PICK e : e = end
    OBVIOUS
<1>6. e = IF cursor.end + PageLimit < Len(l) THEN cursor.end + PageLimit ELSE Len(l)
    BY <1>3, <1>5 DEF PageEnd
<1>7. PICK next : next = NextCursor(session, query, sort, cursor)
    OBVIOUS
<1>8. next # FirstPage => next.end = cursor.end + PageLimit
    <2>1. next = IF e < Len(l)
                 THEN [end |-> e, query |-> query, sort |-> sort,
                       selection |-> IF query.selectedOnly THEN session.revision ELSE 0]
                 ELSE FirstPage
        BY <1>3, <1>5, <1>7 DEF NextCursor
    <2>2. CASE e < Len(l)
        <3>1. e = cursor.end + PageLimit
            BY <1>4, <1>6, <2>2, LenProperties
        <3> QED
            BY <2>1, <2>2, <3>1
    <2> QED
        BY <2>1, <2>2
<1>9. PICK r : r = SubSeq(l, cursor.end + 1, e)
    OBVIOUS
<1>10. r = PageAfter(l, cursor.end)
    BY <1>6, <1>9 DEF PageAfter
<1>11. /\ a.query = query /\ a.cursor = cursor /\ a.next = next /\ a.rows = r
       /\ a.selection = Told(session) /\ a.marked = m
    <2>1. r = rows
        BY <1>3, <1>5, <1>9, Zenon
    <2> HIDE DEF rows
    <2> QED
        BY <1>0, <1>7, <2>1
<1>16. a.marked = {r[i] : i \in DOMAIN r} \cap session.selected
    <2>1. r = rows
        BY <1>3, <1>5, <1>9, Zenon
    <2> HIDE DEF rows
    <2> QED
        BY <1>2, <1>11, <2>1
<1>12. a.selection.selected = session.selected
    BY <1>11 DEF Told
<1>13. NextOK(a)
    BY <1>8, <1>11 DEF NextOK
<1>14. RowsOK(a, sort, a.selection.selected)
    BY <1>4, <1>10, <1>11, <1>12 DEF RowsOK
<1>15. MarksOK(a, a.selection.selected)
    BY <1>11, <1>12, <1>16 DEF MarksOK, Range
<1> QED
    BY <1>11, <1>13, <1>14, <1>15 DEF AnswerTrue

-----------------------------------------------------------------------------
(* The queue of a view without refused inputs.                             *)

LEMMA NothingLeft ==
    ASSUME NEW q \in Seq({})
    PROVE  q = <<>>
<1>1. Len(q) \in Nat
    BY LenProperties
<1>2. Len(q) = 0
    <2>1. ASSUME Len(q) > 0 PROVE FALSE
        <3>1. q[1] \in {}
            BY <1>1, <2>1, ElementOfSeq
        <3> QED
            BY <3>1
    <2> QED
        BY <1>1, <2>1
<1> QED
    BY <1>2, EmptySeq

(* What replaces the whole queue.                                          *)
LEMMA Replaces ==
    ASSUME NEW q, NEW t,
           \/ q = <<>>
           \/ \E w : q = <<w>> /\ w.kind = "query" /\ t.kind = "query"
    PROVE  Enqueued(q, t) = <<t>>
<1> DEFINE dropped == IF t.kind = "query" THEN {"query", "page"} ELSE
                      IF t.kind = "page"  THEN {"page"} ELSE {}
           kept == {x \in Range(q) : x.kind \notin dropped}
<1>1. Enqueued(q, t) = Append(Filter(q, kept), t)
    BY DEF Enqueued
<1>2. q \in Seq(Range(q)) /\ kept = {}
    <2>1. CASE q = <<>>
        BY <2>1 DEF Range
    <2>2. ASSUME NEW w, q = <<w>>, w.kind = "query", t.kind = "query"
          PROVE  q \in Seq(Range(q)) /\ kept = {}
        <3>1. Range(q) = {w}
            BY <2>2 DEF Range
        <3> QED
            BY <2>2, <3>1
    <2> QED
        BY <2>1, <2>2
<1>3. Filter(q, kept) = <<>>
    <2> HIDE DEF kept
    <2>1. Filter(q, kept) \in Seq(Range(q) \cap kept)
        BY <1>2, FilterKeeps
    <2>2. Range(q) \cap kept = {}
        BY <1>2
    <2> QED
        BY <2>1, <2>2, NothingLeft
<1>4. Append(<<>>, t) = <<t>>
    OBVIOUS
<1> QED
    BY <1>1, <1>3, <1>4, Zenon

LEMMA PumpNone ==
    ASSUME NEW u, Pump(u, <<>>)
    PROVE  ui' = u /\ queue' = <<>> /\ flight' = Idle
<1>1. DOMAIN <<>> = {}
    OBVIOUS
<1> QED
    BY <1>1 DEF Pump

LEMMA PumpOne ==
    ASSUME NEW u, NEW t, ~Pointless(u, t), Pump(u, <<t>>)
    PROVE  ui' = u /\ queue' = <<>> /\ flight' = Started(u, t)
<1>1. /\ DOMAIN <<t>> = {1} /\ <<t>>[1] = t /\ Len(<<t>>) = 1
      /\ SubSeq(<<t>>, 2, 1) = <<>>
    OBVIOUS
<1>2. PICK tasks : tasks = <<t>>
    OBVIOUS
<1>3. {i \in DOMAIN tasks : ~Pointless(u, tasks[i])} = {1}
    BY <1>1, <1>2
<1>4. Min({1}) = 1
    BY MinIsElement
<1> QED
    BY <1>1, <1>2, <1>3, <1>4 DEF Pump

-----------------------------------------------------------------------------
(* A view that is true stays so.                                           *)

UpToDate(u, ss, lost) ==
    ~lost => \A s \in Scans : u.scan = Scan(s) /\ u.selection.present =>
                u.selection.value = Told(ss[s])

OfTheView(t, u) ==
    t.scan = u.scan /\ t.query = u.query /\ t.sort = u.sort /\ Placed(t)

LEMMA SameView ==
    ASSUME NEW u, NEW v, NEW lost, TrueView(u, lost),
           v.index = u.index, v.history = u.history, v.cache = u.cache,
           v.page = u.page, v.query = u.query, v.sort = u.sort,
           v.selection = u.selection
    PROVE  TrueView(v, lost)
BY DEF TrueView, PathOK, ShownTrue, KeptTrue

LEMMA EmptyView ==
    ASSUME NEW v, NEW lost, ~v.page.present, v.cache = <<>>, v.index = 0,
           v.history = <<FirstPage>>
    PROVE  TrueView(v, lost) /\ TrueMarks(v, lost)
<1>1. PathOK(v)
    BY FirstPlace DEF PathOK
<1> QED
    BY <1>1 DEF TrueView, ShownTrue, TrueMarks

LEMMA RestTrue ==
    ASSUME NEW u, NEW ss, NEW lost, TrueView(u, lost), TrueMarks(u, lost),
           UpToDate(u, ss, lost)
    PROVE  PageTrue(u, <<>>, Idle, ss, lost)
BY DEF PageTrue, Orderly, InStep, Brings, Tells, UpToDate

LEMMA StartTrue ==
    ASSUME NEW u, NEW f, NEW ss, NEW lost, TrueView(u, lost), UpToDate(u, ss, lost),
           f # Idle, f.at = "sent", FlightTrue(f, u), OfTheQueryShown(f, u),
           u.page.present => u.phase = "loading" \/ u.updating
    PROVE  PageTrue(u, <<>>, f, ss, lost)
<1>1. \A s : ~Brings(f, s) /\ ~Tells(f, s)
    BY DEF Brings, Tells
<1> QED
    BY <1>1 DEF PageTrue, Orderly, InStep, UpToDate

(* A page of the view is asked for.                                        *)
LEMMA PageStart ==
    ASSUME NEW u \in Ui, NEW w, NEW t, t.kind # "selection", OfTheView(t, u),
           NEW f, f = Started(w, t)
    PROVE  f # Idle /\ f.at = "sent" /\ FlightTrue(f, u) /\ OfTheQueryShown(f, u)
<1>1. f = [at |-> "sent", task |-> t, call |-> PageCall(t), origin |-> FirstPage]
    BY DEF Started
<1>2. /\ f.at = "sent" /\ f.task = t /\ f.call.call = "page"
      /\ f.call.query = t.query
    BY <1>1 DEF PageCall
<1>3. f # Idle
    BY <1>2 DEF Idle
<1>4. u.query.revision \in Nat
    BY DEF Ui, Query
<1>5. FlightTrue(f, u)
    BY <1>2, <1>4 DEF FlightTrue, OfTheView, NotAhead
<1> QED
    BY <1>2, <1>3, <1>5 DEF OfTheView, OfTheQueryShown

(* An update of the page that is shown is asked for.                       *)
LEMMA UpdateStart ==
    ASSUME NEW u \in Ui, NEW lost, TrueView(u, lost), u.page.present, u.updating,
           u.phase # "loading", NEW t, t.kind = "selection", t.scan = u.scan,
           NEW f, f = Started(u, t)
    PROVE  f # Idle /\ f.at = "sent" /\ FlightTrue(f, u) /\ OfTheQueryShown(f, u)
<1>1. f = [at |-> "sent", task |-> t, call |-> UpdateCall(u, t),
           origin |-> u.page.value.cursor]
    BY DEF Started
<1>2. /\ f.at = "sent" /\ f.task = t /\ f.call.call = "update"
      /\ f.call.query = u.page.value.query /\ f.origin = u.page.value.cursor
    BY <1>1 DEF UpdateCall
<1>3. f # Idle
    BY <1>2 DEF Idle
<1>4. u.query.revision \in Nat
    BY DEF Ui, Query
<1>5. u.page.value.query = u.query /\ At(u.page.value.cursor, u.index)
    BY DEF TrueView, ShownTrue
<1>6. FlightTrue(f, u)
    BY <1>2, <1>4, <1>5 DEF FlightTrue, InPlace
<1> QED
    BY <1>2, <1>3, <1>5, <1>6 DEF OfTheQueryShown

LEMMA FreshIsOfTheView ==
    ASSUME NEW u
    PROVE  FreshQuery(u).kind = "query" /\ OfTheView(FreshQuery(u), u)
<1>1. PICK t : t = FreshQuery(u)
    OBVIOUS
<1>2. t = [kind |-> "query", scan |-> u.scan, query |-> u.query, sort |-> u.sort,
           cursor |-> FirstPage, index |-> 0, history |-> <<FirstPage>>]
    BY <1>1 DEF FreshQuery, PageTask
<1>3. Placed(t)
    BY <1>2, FirstPlace DEF Placed, PathOK
<1> QED
    BY <1>1, <1>2, <1>3 DEF OfTheView

(* The pump starts a page of the view.                                     *)
LEMMA PagePumped ==
    ASSUME NEW u \in Ui, TrueView(u, untold'), UpToDate(u, sessions', untold'),
           u.page.present => u.phase = "loading" \/ u.updating,
           NEW t, t.kind # "selection", OfTheView(t, u), Pump(u, <<t>>)
    PROVE  PageInv'
<1>1. ui' = u /\ queue' = <<>> /\ flight' = Started(u, t)
    BY PumpOne DEF Pointless
<1>2. PICK f : f = Started(u, t)
    OBVIOUS
<1>3. f # Idle /\ f.at = "sent" /\ FlightTrue(f, u) /\ OfTheQueryShown(f, u)
    BY <1>2, PageStart
<1>4. PageTrue(u, <<>>, f, sessions', untold')
    BY <1>3, StartTrue
<1> QED
    BY <1>1, <1>2, <1>4 DEF PageInv

(* The pump after an answer.                                               *)
LEMMA QueuePumped ==
    ASSUME NEW u \in Ui, TrueView(u, untold'), TrueMarks(u, untold'),
           UpToDate(u, sessions', untold'), Pump(u, queue),
           queue = <<>> \/ (queue = <<FreshQuery(u)>> /\ ~u.page.present)
    PROVE  PageInv'
<1>1. CASE queue = <<>>
    <2>1. ui' = u /\ queue' = <<>> /\ flight' = Idle
        BY <1>1, PumpNone
    <2>2. PageTrue(u, <<>>, Idle, sessions', untold')
        BY RestTrue
    <2> QED
        BY <2>1, <2>2 DEF PageInv
<1>2. CASE queue = <<FreshQuery(u)>> /\ ~u.page.present
    <2>1. PICK t : t = FreshQuery(u)
        OBVIOUS
    <2>2. t.kind = "query" /\ OfTheView(t, u) /\ Pump(u, <<t>>)
        BY <1>2, <2>1, FreshIsOfTheView
    <2> QED
        BY <1>2, <2>2, PagePumped
<1> QED
    BY <1>1, <1>2

(* The selection of the session is that of the view, but for the answer of *)
(* an update that is under way.                                            *)
LEMMA ViewUpToDate ==
    ASSUME PageInv, ViewInv,
           \A s \in Scans : ui.scan = Scan(s) => ~Brings(flight, s)
    PROVE  UpToDate(ui, sessions, untold)
BY DEF PageInv, PageTrue, InStep, UpToDate

(* An empty view that waits for its query.                                 *)
LEMMA FreshTurn ==
    ASSUME NEW u \in Ui, ~u.page.present, TrueView(u, untold'),
           UpToDate(u, sessions', untold'), Turn(u, <<FreshQuery(u)>>),
           flight # Idle => /\ FlightTrue(flight, u) /\ ~OfTheQueryShown(flight, u)
                            /\ ~untold' => \A s \in Scans :
                                  InStep(u, flight, s, sessions'[s])
    PROVE  PageInv'
<1>1. CASE flight = Idle
    <2>1. PICK t : t = FreshQuery(u)
        OBVIOUS
    <2>2. t.kind = "query" /\ OfTheView(t, u) /\ Pump(u, <<t>>)
        BY <1>1, <2>1, FreshIsOfTheView DEF Turn
    <2> QED
        BY <2>2, PagePumped
<1>2. CASE flight # Idle
    <2>1. ui' = u /\ queue' = <<FreshQuery(u)>> /\ flight' = flight
        BY <1>2 DEF Turn
    <2>2. Orderly(u, <<FreshQuery(u)>>, flight)
        BY <1>2 DEF Orderly
    <2>3. PageTrue(u, <<FreshQuery(u)>>, flight, sessions', untold')
        BY <1>2, <2>2 DEF PageTrue
    <2> QED
        BY <2>1, <2>3 DEF PageInv
<1> QED
    BY <1>1, <1>2

-----------------------------------------------------------------------------
(* The steps of the user, and what the pages show.                         *)

LEMMA FlightPlace ==
    ASSUME ViewInv, PageInv, flight # Idle
    PROVE  /\ flight.call.query.revision \in Nat /\ ui.query.revision \in Nat
           /\ flight.task.scan = ui.scan =>
                 flight.call.query.revision <= ui.query.revision
           /\ flight.call.call = "page" => flight.call.query = flight.task.query
<1>1. ui.query.revision \in Nat
    BY DEF ViewInv, Sound, Ui, Query
<1>2. FlightTrue(flight, ui)
    BY DEF PageInv, PageTrue
<1>3. CASE PageFlight(flight)
    <2>1. /\ flight.task.query \in Query /\ flight.call.query = flight.task.query
          /\ flight.call.call = "page"
        BY <1>3 DEF PageFlight, PageCall, PageTasks
    <2> QED
        BY <1>1, <1>2, <2>1 DEF FlightTrue, NotAhead, Query
<1>4. CASE UpdateFlight(flight)
    <2>1. flight.call.query \in Query /\ flight.call.call = "update"
        BY <1>4 DEF UpdateFlight, UpdateCalls
    <2> QED
        BY <1>1, <1>2, <2>1 DEF FlightTrue, InPlace, Query
<1> QED
    BY <1>3, <1>4 DEF ViewInv, Flying

(* A flight of another scan, or of an earlier query, has no place in the   *)
(* view.                                                                   *)
LEMMA FlightElsewhere ==
    ASSUME ViewInv, PageInv, flight # Idle, NEW u, u.query.revision \in Nat,
           \/ flight.task.scan # u.scan
           \/ flight.call.query.revision < u.query.revision
    PROVE  FlightTrue(flight, u) /\ ~OfTheQueryShown(flight, u)
<1>1. FlightTrue(flight, ui)
    BY DEF PageInv, PageTrue
<1> QED
    BY <1>1, FlightPlace DEF FlightTrue, NotAhead, InPlace, OfTheQueryShown

LEMMA HideScanPage ==
    ASSUME ViewInv, PageInv, HideScan
    PROVE  PageInv'
<1>1. PICK u : u = InitialUi(NoScan)
    OBVIOUS
<1>2. /\ u.scan = NoScan /\ ~u.page.present /\ u.cache = <<>> /\ u.index = 0
      /\ u.history = <<FirstPage>> /\ u.query.revision \in Nat
    BY <1>1 DEF InitialUi, Absent, InitialQuery
<1>3. TrueView(u, untold) /\ TrueMarks(u, untold)
    BY <1>2, EmptyView
<1>4. UpToDate(u, sessions, untold)
    BY <1>2, ScanIsItsScan DEF UpToDate
<1>5. Turn(u, <<>>) /\ sessions' = sessions /\ untold' = untold
    BY <1>1 DEF HideScan, sessionVars
<1>6. CASE flight = Idle
    <2>1. ui' = u /\ queue' = <<>> /\ flight' = Idle
        BY <1>5, <1>6, PumpNone DEF Turn
    <2>2. PageTrue(u, <<>>, Idle, sessions, untold)
        BY <1>3, <1>4, RestTrue
    <2> QED
        BY <1>5, <2>1, <2>2 DEF PageInv
<1>7. CASE flight # Idle
    <2>1. ui' = u /\ queue' = <<>> /\ flight' = flight
        BY <1>5, <1>7 DEF Turn
    <2>2. flight.task.scan # u.scan
        BY <1>2, <1>7, FlightShape, ScanIsItsScan
    <2>3. FlightTrue(flight, u)
        BY <1>2, <1>7, <2>2, FlightElsewhere
    <2>4. ~untold => \A s \in Scans : InStep(u, flight, s, sessions[s])
        BY <1>2, ScanIsItsScan DEF PageInv, PageTrue, InStep
    <2>5. PageTrue(u, <<>>, flight, sessions, untold)
        BY <1>2, <1>3, <1>7, <2>3, <2>4 DEF PageTrue, Orderly
    <2> QED
        BY <1>5, <2>1, <2>5 DEF PageInv
<1> QED
    BY <1>6, <1>7

LEMMA ShowScanPage ==
    ASSUME ViewInv, PageInv, NEW s \in Scans, ShowScan(s)
    PROVE  PageInv'
<1>1. PICK u : u = InitialUi(Scan(s))
    OBVIOUS
<1>2. /\ u.scan = Scan(s) /\ ~u.page.present /\ u.cache = <<>> /\ u.index = 0
      /\ u.history = <<FirstPage>> /\ u.query.revision \in Nat
      /\ ~u.selection.present
    BY <1>1 DEF InitialUi, Absent, InitialQuery
<1>3. u \in Ui
    <2>1. Scan(s) \in {NoScan} \cup AnyScan
        BY DEF AnyScan
    <2>2. PICK ss : ss = [t \in Scans |-> [kept |-> "kept"]]
        OBVIOUS
    <2>3. Sound(u, ss)
        BY <1>1, <2>1, <2>2, FreshUi
    <2> QED
        BY <2>3 DEF Sound
<1>4. TrueView(u, untold')
    BY <1>2, EmptyView
<1>5. UpToDate(u, sessions', untold')
    BY <1>2 DEF UpToDate
<1>6. queue = <<>>
    <2>1. queue \in Seq(WaitingFor(NoScan))
        BY DEF ViewInv, ShowScan
    <2>2. WaitingFor(NoScan) = {}
        BY ScanIsItsScan DEF WaitingFor, PageTasks, SelectionTasks, AnyScan
    <2> QED
        BY <2>1, <2>2, NothingLeft
<1>7. Turn(u, <<FreshQuery(u)>>)
    BY <1>1, <1>6, Replaces DEF ShowScan
<1>8. /\ StoreSession(s) /\ SessionsOK /\ untold' = untold
    BY DEF ShowScan, ViewInv
<1>9. /\ sessions[s].kept = "new"
      /\ \A t \in Scans \ {s} : \/ sessions'[t] = sessions[t]
                                \/ sessions'[t].kept = "evicted"
    <2>1. Evicted.kept = "evicted"
        BY DEF Evicted, NewSession
    <2> QED
        BY <1>8, <2>1, StoreStep
<1>10. ASSUME flight # Idle
       PROVE  /\ FlightTrue(flight, u) /\ ~OfTheQueryShown(flight, u)
              /\ ~untold' => \A t \in Scans : InStep(u, flight, t, sessions'[t])
    <2>1. flight.task.scan # Scan(s)
        BY <1>9, <1>10 DEF ViewInv, Flying, FlightOf
    <2>2. FlightTrue(flight, u) /\ ~OfTheQueryShown(flight, u)
        BY <1>2, <1>10, <2>1, FlightElsewhere
    <2>3. ASSUME ~untold', NEW t \in Scans PROVE InStep(u, flight, t, sessions'[t])
        <3>1. InStep(ui, flight, t, sessions[t])
            BY <1>8, <2>3 DEF PageInv, PageTrue
        <3>2. CASE t = s
            BY <1>2, <2>1, <3>2 DEF InStep, Tells
        <3>3. CASE t # s /\ sessions'[t] = sessions[t]
            BY <1>2, <3>1, <3>3 DEF InStep
        <3>4. CASE t # s /\ sessions'[t].kept = "evicted"
            BY <1>2, <3>4 DEF InStep
        <3> QED
            BY <1>9, <3>2, <3>3, <3>4
    <2> QED
        BY <2>2, <2>3
<1> QED
    BY <1>2, <1>3, <1>4, <1>5, <1>7, <1>10, FreshTurn

(* What an intent or a query replaces.                                     *)
LEMMA QueryReplaces ==
    ASSUME PageInv, NEW u
    PROVE  Enqueued(queue, FreshQuery(u)) = <<FreshQuery(u)>>
<1>1. queue = <<>> \/ queue = <<FreshQuery(ui)>>
    BY DEF PageInv, PageTrue, Orderly
<1>2. PICK w, t : w = FreshQuery(ui) /\ t = FreshQuery(u)
    OBVIOUS
<1>3. w.kind = "query" /\ t.kind = "query"
    BY <1>2, FreshIsOfTheView
<1> QED
    BY <1>1, <1>2, <1>3, Replaces

LEMMA ScheduleIntentPage ==
    ASSUME ViewInv, PageInv, NEW filter \in DOMAIN Filters,
           NEW selectedOnly \in BOOLEAN, NEW sort \in DOMAIN Ranking,
           ScheduleIntent(filter, selectedOnly, sort)
    PROVE  PageInv'
<1>1. ui \in Ui /\ ui.query \in Query
    BY DEF ViewInv, Sound, Ui
<1>2. PICK query : query = [filter |-> filter, selectedOnly |-> selectedOnly,
                            revision |-> ui.query.revision + 1]
    OBVIOUS
<1>3. query \in Query /\ query.revision = ui.query.revision + 1
    BY <1>1, <1>2 DEF Query
<1>4. PICK u : u = [ui EXCEPT
                      !.phase = "loading", !.index = 0, !.history = <<FirstPage>>,
                      !.query = query, !.sort = sort, !.cache = <<>>,
                      !.page = Absent, !.error = "none"]
    OBVIOUS
<1>5. /\ <<FirstPage>> \in Seq(AnyCursor) /\ <<>> \in Seq(PageRecord)
      /\ Absent \in Optional(PageRecord)
    BY DEF AnyCursor, Optional
<1>6. u \in Ui
    BY <1>1, <1>3, <1>4, <1>5 DEF Ui
<1>7. /\ u.scan = ui.scan /\ u.selection = ui.selection /\ u.query = query
      /\ u.index = 0 /\ u.history = <<FirstPage>> /\ u.cache = <<>>
      /\ u.page = Absent
    BY <1>1, <1>4 DEF Ui
<1>8. ~u.page.present /\ TrueView(u, untold')
    BY <1>7, EmptyView DEF Absent
<1>9. Turn(u, <<FreshQuery(u)>>) /\ sessions' = sessions /\ untold' = untold
    BY <1>2, <1>4, QueryReplaces DEF ScheduleIntent, sessionVars
<1>10. CASE flight = Idle
    <2>1. UpToDate(ui, sessions, untold)
        BY <1>10, ViewUpToDate DEF Brings
    <2>2. UpToDate(u, sessions', untold')
        BY <1>7, <1>9, <2>1 DEF UpToDate
    <2> QED
        BY <1>6, <1>8, <1>9, <1>10, <2>2, FreshTurn
<1>11. CASE flight # Idle
    <2>1. ui' = u /\ queue' = <<FreshQuery(u)>> /\ flight' = flight
        BY <1>9, <1>11 DEF Turn
    <2>2. u.query.revision \in Nat /\
             \/ flight.task.scan # u.scan
             \/ flight.call.query.revision < u.query.revision
        BY <1>1, <1>3, <1>7, <1>11, FlightPlace
    <2>3. FlightTrue(flight, u) /\ ~OfTheQueryShown(flight, u)
        BY <1>11, <2>2, FlightElsewhere
    <2>4. Orderly(u, <<FreshQuery(u)>>, flight)
        BY <1>8, <1>11, <2>3 DEF Orderly
    <2>5. ~untold => \A s \in Scans : InStep(u, flight, s, sessions[s])
        BY <1>7 DEF PageInv, PageTrue, InStep
    <2>6. PageTrue(u, <<FreshQuery(u)>>, flight, sessions, untold)
        BY <1>8, <1>9, <1>11, <2>3, <2>4, <2>5 DEF PageTrue
    <2> QED
        BY <1>9, <2>1, <2>6 DEF PageInv
<1> QED
    BY <1>10, <1>11

(* No input is refused while a page loads.                                 *)
LEMMA RefuseInputPage ==
    ASSUME ViewInv, PageInv, RefuseInput, "loading" \notin InputErrors
    PROVE  PageInv'
<1>1. ui \in Ui /\ ui.phase # "loading"
    BY DEF ViewInv, Sound, RefuseInput
<1>2. PICK u : u = [ui EXCEPT !.phase = "error", !.error = "queryInvalid"]
    OBVIOUS
<1>3. /\ u.scan = ui.scan /\ u.query = ui.query /\ u.sort = ui.sort
      /\ u.index = ui.index /\ u.history = ui.history /\ u.cache = ui.cache
      /\ u.page = ui.page /\ u.selection = ui.selection
      /\ u.updating = ui.updating /\ u.error = "queryInvalid" /\ u.phase = "error"
    BY <1>1, <1>2 DEF Ui
<1>4. /\ ui' = u /\ queue' = queue /\ flight' = flight
      /\ sessions' = sessions /\ untold' = untold
    BY <1>2 DEF RefuseInput, sessionVars
<1>5. TrueView(u, untold)
    BY <1>3, SameView DEF PageInv, PageTrue
<1>6. TrueMarks(u, untold)
    BY <1>3 DEF TrueMarks
<1>7. flight # Idle => FlightTrue(flight, u)
    BY <1>3 DEF PageInv, PageTrue, FlightTrue, NotAhead, InPlace
<1>8. FreshQuery(u) = FreshQuery(ui)
    BY <1>3 DEF FreshQuery, PageTask
<1>9. Orderly(u, queue, flight)
    BY <1>1, <1>3, <1>8 DEF PageInv, PageTrue, Orderly, OfTheQueryShown
<1>10. ~untold => \A s \in Scans : InStep(u, flight, s, sessions[s])
    BY <1>3 DEF PageInv, PageTrue, InStep
<1> QED
    BY <1>4, <1>5, <1>6, <1>7, <1>9, <1>10 DEF PageInv, PageTrue

(* A page that is touched: it and the others in the cache.                 *)
LEMMA TouchedTrue ==
    ASSUME NEW cache \in Seq(PageRecord), NEW page \in PageRecord, NEW v, NEW lost,
           \A i \in DOMAIN cache : KeptTrue(cache[i], v, lost),
           KeptTrue(page, v, lost)
    PROVE  \A i \in DOMAIN Touched(cache, page) :
              KeptTrue(Touched(cache, page)[i], v, lost)
<1> DEFINE T == {p \in PageRecord : KeptTrue(p, v, lost)}
<1>1. Len(cache) \in Nat /\ DOMAIN cache = 1 .. Len(cache)
    BY LenProperties
<1>2. \A i \in 1 .. Len(cache) : cache[i] \in T
    BY <1>1, ElementOfSeq
<1>3. cache \in Seq(T)
    <2> HIDE DEF T
    <2>1. cache = [i \in 1 .. Len(cache) |-> cache[i]]
        BY LenProperties
    <2> QED
        BY <1>1, <1>2, <2>1
<1>4. page \in T
    OBVIOUS
<1>5. PICK q : q = Touched(cache, page)
    OBVIOUS
<1>6. q \in Seq(T)
    <2> HIDE DEF T
    <2> QED
        BY <1>3, <1>4, <1>5, TouchedType
<1>7. \A i \in DOMAIN q : q[i] \in T
    <2> HIDE DEF T
    <2> QED
        BY <1>6, LenProperties, ElementOfSeq
<1> QED
    BY <1>5, <1>7

(* A page of the cache, or one that is asked for, takes its place.         *)
LEMMA ActivatePage ==
    ASSUME ViewInv, PageInv, UNCHANGED <<sessionVars, untold>>, Navigable,
           NEW cursor \in AnyCursor, NEW index \in Nat,
           NEW history \in Seq(AnyCursor), At(cursor, index),
           \A i \in 1 .. index + 1 : At(history[i], i - 1),
           Activate(cursor, index, history)
    PROVE  PageInv'
<1>1. /\ ui \in Ui /\ ui.cache \in Seq(PageRecord) /\ TrueView(ui, untold)
      /\ sessions' = sessions /\ untold' = untold
    BY DEF ViewInv, Sound, Ui, PageInv, PageTrue, sessionVars
<1>2. flight = Idle /\ queue = <<>>
    BY DEF Navigable, PageInv, PageTrue, Orderly
<1>3. UpToDate(ui, sessions, untold)
    BY <1>2, ViewUpToDate DEF Brings
<1>4. CASE Cached(ui, cursor) # {}
    <2>1. PICK i \in Cached(ui, cursor) : i = CHOOSE j \in Cached(ui, cursor) : TRUE
        BY <1>4
    <2>2. PICK page : page = ui.cache[i]
        OBVIOUS
    <2>3. /\ page \in PageRecord /\ page.cursor = cursor
          /\ page.query.revision = ui.query.revision
        BY <1>1, <2>1, <2>2, LenProperties, ElementOfSeq DEF Cached
    <2>4. KeptTrue(page, ui, untold)
        BY <1>1, <2>1, <2>2 DEF Cached, TrueView
    <2>5. PICK cache : cache = Touched(ui.cache, page)
        OBVIOUS
    <2>6. \A j \in DOMAIN cache : KeptTrue(cache[j], ui, untold)
        BY <1>1, <2>3, <2>4, <2>5, TouchedTrue DEF TrueView
    <2>7. PICK p : p = [present |-> TRUE, value |-> page]
        OBVIOUS
    <2>8. PICK e : e = IF cursor = FirstPage THEN ui.error ELSE "none"
        OBVIOUS
    <2>9. PICK u : u = [ui EXCEPT !.index = index, !.history = history,
                                  !.cache = cache, !.page = p, !.error = e]
        OBVIOUS
    <2>10. /\ u.scan = ui.scan /\ u.selection = ui.selection /\ u.query = ui.query
           /\ u.sort = ui.sort /\ u.index = index /\ u.history = history
           /\ u.cache = cache /\ u.page = p
        BY <1>1, <2>9 DEF Ui
    <2>11. ui' = u /\ UNCHANGED <<queue, flight>>
        BY <1>4, <2>1, <2>2, <2>5, <2>7, <2>8, <2>9 DEF Activate
    <2>12. PathOK(u)
        BY <2>10 DEF PathOK
    <2>13. p.value = page
        BY <2>7
    <2>14. ShownTrue(u, untold)
        BY <2>3, <2>4, <2>10, <2>13 DEF ShownTrue, KeptTrue
    <2>15. \A j \in DOMAIN u.cache : KeptTrue(u.cache[j], u, untold)
        BY <2>6, <2>10 DEF KeptTrue
    <2>16. TrueMarks(u, untold)
        BY <2>3, <2>4, <2>10, <2>13 DEF TrueMarks, KeptTrue
    <2>17. UpToDate(u, sessions, untold)
        BY <1>3, <2>10 DEF UpToDate
    <2>18. PageTrue(u, <<>>, Idle, sessions, untold)
        BY <2>12, <2>14, <2>15, <2>16, <2>17, RestTrue DEF TrueView
    <2> QED
        BY <1>1, <1>2, <2>11, <2>18 DEF PageInv
<1>5. CASE Cached(ui, cursor) = {}
    <2>1. PICK t : t = PageTask(ui, "page", cursor, index, history)
        OBVIOUS
    <2>2. PICK u : u = [ui EXCEPT !.phase = "loading", !.error = "none"]
        OBVIOUS
    <2>3. /\ u \in Ui /\ u.phase = "loading" /\ u.scan = ui.scan /\ u.query = ui.query
          /\ u.sort = ui.sort /\ u.index = ui.index /\ u.history = ui.history
          /\ u.cache = ui.cache /\ u.page = ui.page /\ u.selection = ui.selection
        BY <1>1, <2>2 DEF Ui
    <2>4. TrueView(u, untold) /\ UpToDate(u, sessions, untold)
        BY <1>1, <1>3, <2>3, SameView DEF UpToDate
    <2>5. t.kind = "page" /\ OfTheView(t, u)
        BY <2>1, <2>3 DEF PageTask, OfTheView, Placed, PathOK
    <2>6. Pump(u, Enqueued(queue, t))
        BY <1>2, <1>5, <2>1, <2>2 DEF Activate, Turn
    <2>7. Enqueued(queue, t) = <<t>>
        BY <1>2, Replaces
    <2> QED
        BY <1>1, <2>3, <2>4, <2>5, <2>6, <2>7, PagePumped
<1> QED
    BY <1>4, <1>5

LEMMA NextPagePage ==
    ASSUME ViewInv, PageInv, NextPage
    PROVE  PageInv'
<1>1. /\ ui \in Ui /\ Reached(ui) /\ ui.page.present /\ Navigable
      /\ ui.index \in Nat /\ ui.history \in Seq(AnyCursor)
      /\ ui.page \in Optional(PageRecord) /\ ui.page.value.next # FirstPage
    BY DEF ViewInv, Sound, Ui, NextPage, Navigable
<1>2. PICK cursor \in AnyCursor : cursor = ui.page.value.next
    BY <1>1, OptionalValue DEF PageRecord
<1>3. PICK before : before = SubSeq(ui.history, 1, ui.index + 1)
    OBVIOUS
<1>4. /\ before \in Seq(AnyCursor) /\ Len(before) = ui.index + 1
      /\ \A i \in 1 .. ui.index + 1 : before[i] = ui.history[i]
    <2>1. ui.index + 1 <= Len(ui.history) /\ Len(ui.history) \in Nat
        BY <1>1, LenProperties DEF Reached
    <2>2. \A i \in 1 .. ui.index + 1 : ui.history[i] \in AnyCursor
        BY <1>1, <2>1, ElementOfSeq
    <2>3. \A i \in 1 .. ui.index + 1 : before[i] = ui.history[1 + i - 1]
        BY <1>1, <1>3, <2>2, SubSeqProperties
    <2> QED
        BY <1>1, <1>3, <2>2, <2>3, SubSeqProperties
<1>5. PICK history : history = Append(before, cursor)
    OBVIOUS
<1>6. /\ history \in Seq(AnyCursor) /\ history[ui.index + 2] = cursor
      /\ \A i \in 1 .. ui.index + 1 : history[i] = ui.history[i]
    BY <1>1, <1>2, <1>4, <1>5, AppendProperties
<1>7. /\ At(ui.page.value.cursor, ui.index) /\ NextOK(ui.page.value) /\ PathOK(ui)
    BY <1>1 DEF PageInv, PageTrue, TrueView, ShownTrue
<1>8. At(cursor, ui.index + 1)
    BY <1>1, <1>2, <1>7, NextPlace DEF At, NextOK
<1>9. \A i \in 1 .. (ui.index + 1) + 1 : At(history[i], i - 1)
    <2> TAKE i \in 1 .. (ui.index + 1) + 1
    <2>1. CASE i \in 1 .. ui.index + 1
        BY <1>6, <1>7, <2>1 DEF PathOK
    <2>2. CASE i = ui.index + 2
        BY <1>1, <1>6, <1>8, <2>2
    <2> QED
        BY <1>1, <2>1, <2>2
<1>10. /\ Activate(cursor, ui.index + 1, history)
       /\ UNCHANGED <<sessionVars, untold>>
    BY <1>2, <1>3, <1>5 DEF NextPage
<1> QED
    BY <1>1, <1>6, <1>8, <1>9, <1>10, ActivatePage

LEMMA PreviousPagePage ==
    ASSUME ViewInv, PageInv, PreviousPage
    PROVE  PageInv'
<1>1. /\ ui \in Ui /\ Reached(ui) /\ Navigable
      /\ ui.index \in Nat /\ ui.history \in Seq(AnyCursor) /\ ui.index > 0
    BY DEF ViewInv, Sound, Ui, PreviousPage
<1>2. ui.index < Len(ui.history) /\ Len(ui.history) \in Nat
    BY <1>1, LenProperties DEF Reached
<1>3. ui.history[ui.index] \in AnyCursor
    BY <1>1, <1>2, ElementOfSeq
<1>4. PathOK(ui)
    BY DEF PageInv, PageTrue, TrueView
<1>5. At(ui.history[ui.index], ui.index - 1)
    BY <1>1, <1>4 DEF PathOK
<1>6. ui.index - 1 \in Nat /\ (ui.index - 1) + 1 = ui.index
    BY <1>1
<1>7. \A i \in 1 .. (ui.index - 1) + 1 : At(ui.history[i], i - 1)
    BY <1>1, <1>4, <1>6 DEF PathOK
<1>8. /\ Activate(ui.history[ui.index], ui.index - 1, ui.history)
      /\ UNCHANGED <<sessionVars, untold>>
    BY DEF PreviousPage
<1> QED
    BY <1>1, <1>3, <1>5, <1>6, <1>7, <1>8, ActivatePage

LEMMA ClickSelectionPage ==
    ASSUME ViewInv, PageInv, NEW operation \in Operations, ClickSelection(operation)
    PROVE  PageInv'
<1>1. /\ ui \in Ui /\ TrueView(ui, untold) /\ ui.page.present /\ ui.selection.present
      /\ ui.phase # "loading" /\ ~ui.updating
      /\ sessions' = sessions /\ untold' = untold
    BY DEF ViewInv, Sound, PageInv, PageTrue, ClickSelection, sessionVars
<1>2. flight = Idle /\ queue = <<>>
    BY <1>1 DEF PageInv, PageTrue, Orderly
<1>3. UpToDate(ui, sessions, untold)
    BY <1>2, ViewUpToDate DEF Brings
<1>4. PICK t : t = SelectionTask(ui, operation)
    OBVIOUS
<1>5. t.kind = "selection" /\ t.scan = ui.scan
    BY <1>4 DEF SelectionTask
<1>6. PICK u : u = [ui EXCEPT !.updating = TRUE, !.error = "none"]
    OBVIOUS
<1>7. /\ u \in Ui /\ u.phase = ui.phase /\ u.updating /\ u.scan = ui.scan
      /\ u.query = ui.query /\ u.sort = ui.sort /\ u.index = ui.index
      /\ u.history = ui.history /\ u.cache = ui.cache /\ u.page = ui.page
      /\ u.selection = ui.selection
    BY <1>1, <1>6 DEF Ui
<1>8. TrueView(u, untold) /\ UpToDate(u, sessions, untold)
    BY <1>1, <1>3, <1>7, SameView DEF UpToDate
<1>9. Pump(u, <<t>>)
    BY <1>2, <1>4, <1>6, Replaces DEF ClickSelection, Turn
<1>10. ui' = u /\ queue' = <<>> /\ flight' = Started(u, t)
    BY <1>1, <1>7, <1>9, PumpOne DEF Pointless
<1>11. PICK f : f = Started(u, t)
    OBVIOUS
<1>12. f # Idle /\ f.at = "sent" /\ FlightTrue(f, u) /\ OfTheQueryShown(f, u)
    BY <1>1, <1>5, <1>7, <1>8, <1>11, UpdateStart
<1>13. PageTrue(u, <<>>, f, sessions, untold)
    BY <1>7, <1>8, <1>12, StartTrue
<1> QED
    BY <1>1, <1>10, <1>11, <1>13 DEF PageInv

-----------------------------------------------------------------------------
(* The answers, and what the pages show.                                   *)

(* An answer arrives: only an updated selection makes the session differ   *)
(* from what the view was told, and then it comes with the answer.         *)
LEMMA AnswerLands ==
    ASSUME ViewInv, PageInv, flight # Idle, flight.at = "sent", NEW s \in Scans,
           flight.task.scan = Scan(s), UNCHANGED <<ui, queue>>,
           NEW a, Answered(a), untold => untold',
           a.outcome = "page" => AnswerTrue(a, flight.call),
           ~untold' => /\ \A t \in Scans : \/ Told(sessions'[t]) = Told(sessions[t])
                                           \/ t = s /\ a.outcome = "updated"
                       /\ a.outcome \in {"page", "updated"} =>
                             a.selection = Told(sessions'[s])
    PROVE  PageInv'
<1>1. PICK f : f = flight'
    OBVIOUS
<1>2. /\ f.at = "answered" /\ f.task = flight.task /\ f.call = flight.call
      /\ f.origin = flight.origin /\ f.answer = a
    BY <1>1 DEF Answered
<1>3. f # Idle
    BY <1>2 DEF Idle
<1>4. FlightTrue(f, ui)
    BY <1>2 DEF PageInv, PageTrue, FlightTrue, InPlace
<1>5. TrueView(ui, untold')
    BY DEF PageInv, PageTrue, TrueView, ShownTrue, KeptTrue
<1>6. Orderly(ui, queue, f)
    BY <1>2, <1>3 DEF PageInv, PageTrue, Orderly, OfTheQueryShown
<1>7. ASSUME ~untold', NEW t \in Scans PROVE InStep(ui, f, t, sessions'[t])
    <2>1. InStep(ui, flight, t, sessions[t])
        BY <1>7 DEF PageInv, PageTrue
    <2>2. ~Brings(flight, t)
        BY DEF Brings
    <2>3. CASE t = s
        <3>1. Tells(f, t) => f.answer.selection = Told(sessions'[t])
            BY <1>2, <1>7, <2>3 DEF Tells
        <3>2. CASE a.outcome = "updated"
            BY <1>2, <1>3, <2>3, <3>1, <3>2 DEF InStep, Brings
        <3>3. CASE a.outcome # "updated"
            <4>1. Told(sessions'[t]) = Told(sessions[t])
                BY <1>7, <3>3
            <4> QED
                BY <2>1, <2>2, <3>1, <4>1 DEF InStep
        <3> QED
            BY <3>2, <3>3
    <2>4. CASE t # s
        <3>1. ~Tells(f, t) /\ Told(sessions'[t]) = Told(sessions[t])
            BY <1>2, <1>7, <2>4, ScanIsItsScan DEF Tells
        <3> QED
            BY <2>1, <2>2, <3>1 DEF InStep
    <2> QED
        BY <2>3, <2>4
<1>8. PageTrue(ui, queue, f, sessions', untold')
    BY <1>3, <1>4, <1>5, <1>6, <1>7 DEF PageTrue
<1> QED
    BY <1>1, <1>8 DEF PageInv

LEMMA SameTold ==
    ASSUME NEW session, NEW other, other.revision = session.revision,
           other.selected = session.selected
    PROVE  Told(other) = Told(session)
BY DEF Told

(* What an executed call does, and what it answers.                        *)
LEMMA ExecutedPage ==
    ASSUME SessionsOK, NEW s \in Scans, NEW call, call.call = "page",
           call.query \in Query, call.sort \in DOMAIN Ranking,
           call.cursor \in AnyCursor, Execute(s, call), NEW a, a = AnswerOf(s, call)
    PROVE  /\ \A t \in Scans : Told(sessions'[t]) = Told(sessions[t])
           /\ a.outcome # "updated"
           /\ a.outcome = "page" =>
                 AnswerTrue(a, call) /\ a.selection = Told(sessions'[s])
<1>1. /\ QueryCandidatePage(s, call.query, call.sort, call.cursor)
      /\ a = PageAnswer(s, call.query, call.sort, call.cursor)
      /\ sessions \in [Scans -> Session] /\ sessions[s] \in Session
    BY DEF Execute, AnswerOf, SessionsOK
<1>2. \A t \in Scans : /\ sessions'[t].selected = sessions[t].selected
                       /\ sessions'[t].revision = sessions[t].revision
    BY <1>1, ReadStep
<1>3. \A t \in Scans : Told(sessions'[t]) = Told(sessions[t])
    BY <1>2, SameTold
<1>4. a \in PageAnswers \cup Errors
    BY <1>1, PageAnswerType
<1>5. a.outcome # "updated"
    BY <1>4 DEF PageAnswers, Errors, Codes
<1>6. a.outcome = "page" => AnswerTrue(a, call) /\ a.selection = Told(sessions[s])
    BY <1>1, PageAnswerTrue
<1> QED
    BY <1>3, <1>5, <1>6

LEMMA ExecutedUpdate ==
    ASSUME SessionsOK, NEW s \in Scans, NEW call, call.call = "update",
           Execute(s, call), NEW a, a = AnswerOf(s, call)
    PROVE  /\ \A t \in Scans : \/ sessions'[t] = sessions[t]
                               \/ t = s /\ a.outcome = "updated"
           /\ a.outcome # "page"
           /\ a.outcome = "updated" => a.selection = Told(sessions'[s])
<1> DEFINE refusal == Refusal(s, call.query, call.operation, call.expected)
<1>1. /\ UpdateCandidateSelection(s, call.query, call.operation, call.expected)
      /\ a = UpdateAnswer(s, call.query, call.operation, call.expected)
      /\ sessions \in [Scans -> Session]
    BY DEF Execute, AnswerOf, SessionsOK
<1>2. CASE refusal = "none"
    <2>1. PICK n : n = Updated(sessions[s], call.operation)
        OBVIOUS
    <2>2. sessions' = [sessions EXCEPT ![s] = n]
        BY <1>1, <1>2, <2>1 DEF UpdateCandidateSelection
    <2>3. sessions'[s] = n /\ \A t \in Scans : t # s => sessions'[t] = sessions[t]
        BY <1>1, <2>2
    <2>4. a.outcome = "updated" /\ a.selection = Told(n)
        BY <1>1, <1>2, <2>1 DEF UpdateAnswer
    <2> QED
        BY <2>3, <2>4
<1>3. CASE refusal # "none"
    <2>1. sessions' = sessions /\ a = Error(refusal)
        BY <1>1, <1>3 DEF UpdateCandidateSelection, UpdateAnswer
    <2>2. refusal \in Codes
        BY <1>3, RefusalType
    <2> HIDE DEF refusal
    <2>3. a.outcome \in Codes
        BY <2>1, <2>2 DEF Error
    <2> QED
        BY <2>1, <2>3 DEF Codes
<1> QED
    BY <1>2, <1>3

LEMMA NativeCallPage ==
    ASSUME ViewInv, PageInv, NativeCall
    PROVE  PageInv'
<1>1. /\ flight # Idle /\ flight.at = "sent" /\ SessionsOK /\ untold \in BOOLEAN
      /\ UNCHANGED <<ui, queue>>
    BY DEF NativeCall, Idle, ViewInv
<1>2. PICK s \in Scans : flight.task.scan = Scan(s)
    BY <1>1, FlightShape
<1>3. flight.task.scan.scan = s
    BY <1>2, ScanIsItsScan
<1>4. PICK a : a = AnswerOf(s, flight.call)
    OBVIOUS
<1>5. ASSUME Execute(s, flight.call)
      PROVE  /\ \A t \in Scans : \/ Told(sessions'[t]) = Told(sessions[t])
                                 \/ t = s /\ a.outcome = "updated"
             /\ a.outcome = "page" => AnswerTrue(a, flight.call)
             /\ a.outcome \in {"page", "updated"} => a.selection = Told(sessions'[s])
    <2>1. CASE flight.call.call = "page"
        <3>1. /\ flight.call.query \in Query /\ flight.call.sort \in DOMAIN Ranking
              /\ flight.call.cursor \in AnyCursor
            BY <1>1, <2>1, FlightShape
        <3>2. /\ \A t \in Scans : Told(sessions'[t]) = Told(sessions[t])
              /\ a.outcome # "updated"
              /\ a.outcome = "page" => /\ AnswerTrue(a, flight.call)
                                       /\ a.selection = Told(sessions'[s])
            BY <1>1, <1>4, <1>5, <2>1, <3>1, ExecutedPage
        <3> QED
            BY <3>2
    <2>2. CASE flight.call.call # "page"
        <3>1. flight.call.call = "update"
            BY <1>1, <2>2, FlightShape
        <3>2. /\ \A t \in Scans : \/ sessions'[t] = sessions[t]
                                  \/ t = s /\ a.outcome = "updated"
              /\ a.outcome # "page"
              /\ a.outcome = "updated" => a.selection = Told(sessions'[s])
            BY <1>1, <1>4, <1>5, <3>1, ExecutedUpdate
        <3> QED
            BY <3>2
    <2> QED
        BY <2>1, <2>2
<1>6. CASE Execute(s, flight.call) /\ Answered(a) /\ untold' = untold
    BY <1>1, <1>2, <1>5, <1>6, AnswerLands
<1>7. CASE /\ Execute(s, flight.call) /\ Answered(Error("incompatible"))
           /\ untold' = (untold \/ a.outcome = "updated")
    <2>1. PICK e : e = Error("incompatible")
        OBVIOUS
    <2>2. e.outcome = "incompatible"
        BY <2>1 DEF Error
    <2>3. ~untold' => a.outcome # "updated"
        BY <1>7
    <2>4. untold => untold'
        BY <1>7
    <2> QED
        BY <1>1, <1>2, <1>5, <1>7, <2>1, <2>2, <2>3, <2>4, AnswerLands
<1>8. CASE Answered(Error("internal")) /\ UNCHANGED <<sessionVars, untold>>
    <2>1. PICK e : e = Error("internal")
        OBVIOUS
    <2>2. e.outcome = "internal" /\ sessions' = sessions /\ untold' = untold
        BY <1>8, <2>1 DEF Error, sessionVars
    <2> QED
        BY <1>1, <1>2, <1>8, <2>1, <2>2, AnswerLands
<1> QED
    BY <1>3, <1>4, <1>6, <1>7, <1>8 DEF NativeCall

LEMMA FailedPage ==
    ASSUME ViewInv, PageInv, flight # Idle, NEW code \in Codes,
           UNCHANGED <<sessionVars, untold>>, UpToDate(ui, sessions, untold),
           Pump(FailedWith(ui, code), queue)
    PROVE  PageInv'
<1>1. /\ ui \in Ui /\ TrueView(ui, untold) /\ sessions' = sessions /\ untold' = untold
    BY DEF ViewInv, Sound, PageInv, PageTrue, sessionVars
<1>2. PICK phase \in {"ready", "error"} :
         phase = IF ui.page.present THEN "ready" ELSE "error"
    OBVIOUS
<1>3. PICK u : u = [ui EXCEPT !.phase = phase, !.updating = FALSE, !.error = code]
    OBVIOUS
<1>4. /\ u \in Ui /\ u.error = code /\ u.scan = ui.scan /\ u.query = ui.query
      /\ u.sort = ui.sort /\ u.index = ui.index /\ u.history = ui.history
      /\ u.cache = ui.cache /\ u.page = ui.page /\ u.selection = ui.selection
    BY <1>1, <1>3 DEF Ui
<1>5. TrueView(u, untold) /\ UpToDate(u, sessions, untold)
    BY <1>1, <1>4, SameView DEF UpToDate
<1>6. TrueMarks(u, untold)
    BY <1>4 DEF TrueMarks, Codes
<1>7. FreshQuery(u) = FreshQuery(ui)
    BY <1>4 DEF FreshQuery, PageTask
<1>8. queue = <<>> \/ (queue = <<FreshQuery(u)>> /\ ~u.page.present)
    BY <1>4, <1>7 DEF PageInv, PageTrue, Orderly
<1>9. Pump(u, queue)
    BY <1>2, <1>3 DEF FailedWith
<1> QED
    BY <1>1, <1>4, <1>5, <1>6, <1>8, <1>9, QueuePumped

LEMMA RecoverPage ==
    ASSUME ViewInv, PageInv, UNCHANGED <<sessionVars, untold>>,
           UpToDate(ui, sessions, untold), Recover(ui)
    PROVE  PageInv'
<1>1. ui \in Ui /\ sessions' = sessions /\ untold' = untold
    BY DEF ViewInv, Sound, sessionVars
<1>2. PICK u : u = Recovering(ui)
    OBVIOUS
<1>3. /\ <<FirstPage>> \in Seq(AnyCursor) /\ <<>> \in Seq(PageRecord)
      /\ Absent \in Optional(PageRecord)
    BY DEF AnyCursor, Optional
<1>4. u \in Ui
    BY <1>1, <1>2, <1>3 DEF Ui, Recovering
<1>5. /\ u.scan = ui.scan /\ u.selection = ui.selection /\ u.cache = <<>>
      /\ u.index = 0 /\ u.history = <<FirstPage>> /\ u.page = Absent
    BY <1>1, <1>2 DEF Ui, Recovering
<1>6. ~u.page.present /\ TrueView(u, untold)
    BY <1>5, EmptyView DEF Absent
<1>7. UpToDate(u, sessions, untold)
    BY <1>5 DEF UpToDate
<1>8. PICK t : t = FreshQuery(u)
    OBVIOUS
<1>9. t.kind = "query" /\ OfTheView(t, u)
    BY <1>8, FreshIsOfTheView
<1>10. Pump(u, <<t>>)
    BY <1>2, <1>8, QueryReplaces DEF Recover
<1> QED
    BY <1>1, <1>4, <1>6, <1>7, <1>9, <1>10, PagePumped

(* The page that was asked for takes its place in the view.                *)
LEMMA AppliedPage ==
    ASSUME ViewInv, PageInv, flight # Idle, flight.at = "answered",
           flight.call.call = "page", flight.answer.outcome = "page",
           Current(flight.task), UNCHANGED <<sessionVars, untold>>, queue = <<>>,
           Pump(Applied(flight.task, flight.answer), queue)
    PROVE  PageInv'
<1> DEFINE task == flight.task
           answer == flight.answer
<1>1. /\ ui \in Ui /\ ui.cache \in Seq(PageRecord) /\ TrueView(ui, untold)
      /\ sessions' = sessions /\ untold' = untold
      /\ task.scan = ui.scan /\ task.query.revision = ui.query.revision
    BY DEF ViewInv, Sound, Ui, PageInv, PageTrue, sessionVars, Current
<1>2. /\ task \in PageTasks /\ flight.call = PageCall(task)
      /\ answer \in PageAnswers \cup Errors
    BY FlightShape DEF PageFlight
<1>3. answer \in PageAnswers
    BY <1>2 DEF Errors, Codes
<1>4. /\ flight.call.query = task.query /\ flight.call.sort = task.sort
      /\ flight.call.cursor = task.cursor
    BY <1>2 DEF PageCall
<1>5. FlightTrue(flight, ui)
    BY DEF PageInv, PageTrue
<1>6. /\ Placed(task) /\ task.query = ui.query /\ task.sort = ui.sort
      /\ AnswerTrue(answer, flight.call)
    BY <1>1, <1>5 DEF FlightTrue, NotAhead
<1>7. PICK page : page = Page(answer)
    OBVIOUS
<1>8. /\ page.query = ui.query /\ page.cursor = task.cursor
      /\ page.next = answer.next /\ page.rows = answer.rows
      /\ page.marked = answer.marked
    BY <1>4, <1>6, <1>7 DEF Page, AnswerTrue
<1>9. page \in PageRecord
    BY <1>3, <1>7 DEF Page, PageAnswers, PageRecord
<1>10. /\ NextOK(page) /\ RowsOK(page, ui.sort, answer.selection.selected)
       /\ MarksOK(page, answer.selection.selected)
    BY <1>4, <1>6, <1>8 DEF AnswerTrue, NextOK, RowsOK, MarksOK
<1>11. PICK s \in Scans : task.scan = Scan(s)
    BY FlightShape
<1>12. ~untold => answer.selection = Told(sessions[s])
    <2>1. sessions[s].kept = "kept"
        BY <1>1, <1>11 DEF ViewInv, Sound
    <2> QED
        BY <1>11, <2>1 DEF PageInv, PageTrue, InStep, Tells
<1>13. ~untold /\ ui.selection.present => ui.selection.value = answer.selection
    BY <1>1, <1>11, <1>12 DEF PageInv, PageTrue, InStep, Brings
<1>14. PICK cache : cache = Touched(ui.cache, page)
    OBVIOUS
<1>15. PICK p : p = [present |-> TRUE, value |-> page]
    OBVIOUS
<1>16. PICK x : x = [present |-> TRUE, value |-> answer.selection]
    OBVIOUS
<1>17. PICK u : u = [ui EXCEPT !.phase = "ready", !.index = task.index,
                       !.history = task.history, !.cache = cache,
                       !.page = p, !.selection = x,
                       !.updating = FALSE, !.error = "none"]
    OBVIOUS
<1>18. /\ u.scan = ui.scan /\ u.query = ui.query /\ u.sort = ui.sort
       /\ u.index = task.index /\ u.history = task.history /\ u.cache = cache
       /\ u.page = p /\ u.selection = x
    BY <1>1, <1>17 DEF Ui
<1>19. /\ p.value = page /\ p.present /\ x.value = answer.selection /\ x.present
    BY <1>15, <1>16
<1>20. u = Applied(task, answer) /\ u \in Ui
    <2>1. u = Applied(task, answer)
        BY <1>7, <1>14, <1>15, <1>16, <1>17 DEF Applied
    <2>2. Sound(Applied(task, answer), sessions)
        BY <1>1, AppliedSound
    <2> QED
        BY <2>1, <2>2 DEF Sound
<1> HIDE DEF task, answer
<1>21. KeptTrue(page, u, untold)
    BY <1>8, <1>10, <1>18, <1>19 DEF KeptTrue
<1>22. \A i \in DOMAIN ui.cache : KeptTrue(ui.cache[i], u, untold)
    <2> TAKE i \in DOMAIN ui.cache
    <2>1. KeptTrue(ui.cache[i], ui, untold)
        BY <1>1 DEF TrueView
    <2> QED
        BY <1>13, <1>18, <1>19, <2>1 DEF KeptTrue
<1>23. \A i \in DOMAIN u.cache : KeptTrue(u.cache[i], u, untold)
    BY <1>1, <1>9, <1>14, <1>18, <1>21, <1>22, TouchedTrue
<1>24. PathOK(u) /\ At(page.cursor, u.index)
    BY <1>6, <1>8, <1>18 DEF Placed, PathOK
<1>25. ShownTrue(u, untold)
    BY <1>8, <1>10, <1>18, <1>19, <1>24 DEF ShownTrue
<1>26. TrueMarks(u, untold)
    BY <1>10, <1>18, <1>19 DEF TrueMarks
<1>27. UpToDate(u, sessions, untold)
    BY <1>1, <1>11, <1>12, <1>18, <1>19, ScanIsItsScan DEF UpToDate
<1>28. Pump(u, queue)
    BY <1>20 DEF task, answer
<1> QED
    BY <1>1, <1>20, <1>23, <1>24, <1>25, <1>26, <1>27, <1>28, QueuePumped DEF TrueView

LEMMA SettlePagePage ==
    ASSUME ViewInv, PageInv, SettlePage
    PROVE  PageInv'
<1>1. /\ flight # Idle /\ flight.at = "answered" /\ flight.call.call = "page"
      /\ UNCHANGED <<sessionVars, untold>>
    BY DEF SettlePage, Idle
<1>2. /\ flight.answer \in PageAnswers \cup Errors
      /\ flight.call.query = flight.task.query
    BY <1>1, FlightShape, FlightPlace DEF PageFlight
<1>3. flight.answer.outcome \in {"page"} \cup Codes
    BY <1>2 DEF PageAnswers, Errors
<1>4. UpToDate(ui, sessions, untold)
    <2>1. flight.answer.outcome # "updated"
        BY <1>3 DEF Codes
    <2> QED
        BY <2>1, ViewUpToDate DEF Brings
<1>5. ui \in Ui /\ TrueView(ui, untold) /\ sessions' = sessions /\ untold' = untold
    BY <1>1 DEF ViewInv, Sound, PageInv, PageTrue, sessionVars
<1>6. CASE ~Current(flight.task) /\ Pump(ui, queue)
    <2>1. ~OfTheQueryShown(flight, ui)
        BY <1>2, <1>6 DEF Current, OfTheQueryShown
    <2>2. ~ui.page.present /\ (queue = <<>> \/ queue = <<FreshQuery(ui)>>)
        BY <1>1, <2>1 DEF PageInv, PageTrue, Orderly
    <2>3. TrueMarks(ui, untold)
        BY <2>2 DEF TrueMarks
    <2> QED
        BY <1>4, <1>5, <1>6, <2>2, <2>3, QueuePumped
<1>7. CASE Current(flight.task)
    <2>1. OfTheQueryShown(flight, ui)
        BY <1>2, <1>7 DEF Current, OfTheQueryShown
    <2>2. queue = <<>>
        BY <1>1, <2>1 DEF PageInv, PageTrue, Orderly
    <2>3. CASE /\ flight.answer.outcome = "page"
               /\ Pump(IF Regresses(flight.answer) THEN FailedWith(ui, "incompatible")
                       ELSE Applied(flight.task, flight.answer), queue)
        <3>1. CASE Regresses(flight.answer)
            BY <1>1, <1>4, <2>3, <3>1, FailedPage DEF Codes
        <3>2. CASE ~Regresses(flight.answer)
            BY <1>1, <1>7, <2>2, <2>3, <3>2, AppliedPage
        <3> QED
            BY <3>1, <3>2
    <2>4. CASE Recover(ui)
        BY <1>1, <1>4, <2>4, RecoverPage
    <2>5. CASE /\ flight.answer.outcome # "page"
               /\ Pump(FailedWith(ui, flight.answer.outcome), queue)
        BY <1>1, <1>3, <1>4, <2>5, FailedPage
    <2> QED
        BY <1>7, <2>3, <2>4, <2>5 DEF SettlePage
<1> QED
    BY <1>6, <1>7 DEF SettlePage

(* The selection that is shown with an updated answer.                     *)
LEMMA SelectionShownPage ==
    ASSUME ViewInv, PageInv, flight # Idle, flight.at = "answered",
           flight.call.call = "update", flight.answer.outcome = "updated",
           flight.task.scan = ui.scan, NEW u, u = SelectionShown(flight.answer)
    PROVE  /\ u \in Ui /\ u.phase = ui.phase /\ u.scan = ui.scan
           /\ u.query = ui.query /\ u.sort = ui.sort /\ u.index = ui.index
           /\ u.history = ui.history /\ u.page = ui.page
           /\ u.updating = ui.updating
           /\ UpToDate(u, sessions, untold)
           /\ (ui.page.present /\ ui.query.selectedOnly) \/ TrueView(u, untold)
           /\ u.cache = <<>> /\ PathOK(u)
<1>1. ui \in Ui /\ TrueView(ui, untold)
    BY DEF ViewInv, Sound, PageInv, PageTrue
<1>2. PICK x : x = [present |-> TRUE, value |-> flight.answer.selection]
    OBVIOUS
<1>3. u = [ui EXCEPT !.selection = x, !.cache = <<>>, !.error = "none"]
    BY <1>2 DEF SelectionShown
<1>4. u \in Ui
    BY SelectionShownSound DEF Sound
<1>5. /\ u.phase = ui.phase /\ u.scan = ui.scan /\ u.query = ui.query
      /\ u.sort = ui.sort /\ u.index = ui.index /\ u.history = ui.history
      /\ u.page = ui.page /\ u.updating = ui.updating
      /\ u.selection = x /\ u.cache = <<>>
    BY <1>1, <1>3 DEF Ui
<1>6. x.present /\ x.value = flight.answer.selection
    BY <1>2
<1>7. PICK s \in Scans : flight.task.scan = Scan(s)
    BY FlightShape
<1>8. ~untold => flight.answer.selection = Told(sessions[s])
    <2>1. sessions[s].kept = "kept"
        BY <1>7 DEF ViewInv, Sound
    <2> QED
        BY <1>7, <2>1 DEF PageInv, PageTrue, InStep, Tells
<1>9. UpToDate(u, sessions, untold)
    BY <1>5, <1>6, <1>7, <1>8, ScanIsItsScan DEF UpToDate
<1>10. PathOK(u)
    BY <1>1, <1>5 DEF TrueView, PathOK
<1>11. ASSUME ~(ui.page.present /\ ui.query.selectedOnly) PROVE TrueView(u, untold)
    <2>1. ASSUME ui.page.present, NEW selected, NEW other,
                 RowsOK(ui.page.value, ui.sort, other)
          PROVE  RowsOK(ui.page.value, ui.sort, selected)
        <3>1. ui.page.value.query = ui.query /\ ~ui.query.selectedOnly
            BY <1>1, <1>11, <2>1 DEF TrueView, ShownTrue
        <3>2. Rows(ui.query, ui.sort, selected) = Rows(ui.query, ui.sort, other)
            BY <3>1, SameRows
        <3> QED
            BY <2>1, <3>1, <3>2 DEF RowsOK
    <2>2. ShownTrue(u, untold)
        BY <1>1, <1>5, <1>6, <2>1 DEF TrueView, ShownTrue
    <2> QED
        BY <1>5, <1>10, <2>2 DEF TrueView
<1> QED
    BY <1>4, <1>5, <1>9, <1>10, <1>11

(* The page is read again in its place, or from the start.                 *)
LEMMA RefreshPage ==
    ASSUME ViewInv, PageInv, flight # Idle, flight.at = "answered",
           flight.call.call = "update", flight.answer.outcome = "updated",
           flight.task.scan = ui.scan,
           ui.query.revision = flight.call.query.revision,
           UNCHANGED <<sessionVars, untold>>,
           NEW u, u = SelectionShown(flight.answer), Refresh(u)
    PROVE  PageInv'
<1>1. /\ u \in Ui /\ u.phase = ui.phase /\ u.scan = ui.scan /\ u.query = ui.query
      /\ u.sort = ui.sort /\ u.index = ui.index /\ u.history = ui.history
      /\ u.page = ui.page /\ u.updating = ui.updating
      /\ UpToDate(u, sessions, untold) /\ u.cache = <<>> /\ PathOK(u)
      /\ (ui.page.present /\ ui.query.selectedOnly) \/ TrueView(u, untold)
    BY SelectionShownPage
<1>2. /\ ui.page.present /\ ui.updating /\ At(flight.origin, ui.index)
      /\ queue = <<>> /\ sessions' = sessions /\ untold' = untold
    BY DEF PageInv, PageTrue, FlightTrue, InPlace, Orderly, sessionVars
<1>3. CASE u.query.selectedOnly
    <2>1. PICK t : t = PageTask(u, "page", FirstPage, 0, <<FirstPage>>)
        OBVIOUS
    <2>2. PICK v : v = [u EXCEPT !.phase = "loading", !.index = 0,
                                 !.history = <<FirstPage>>, !.page = Absent]
        OBVIOUS
    <2>3. ui' = v /\ flight' = Started(u, t) /\ queue' = <<>>
        BY <1>2, <1>3, <2>1, <2>2 DEF Refresh
    <2>4. /\ Absent \in Optional(PageRecord) /\ <<FirstPage>> \in Seq(AnyCursor)
        BY DEF Optional, AnyCursor
    <2>5. v \in Ui
        BY <1>1, <2>2, <2>4 DEF Ui
    <2>6. /\ v.scan = u.scan /\ v.query = u.query /\ v.sort = u.sort
          /\ v.selection = u.selection /\ v.cache = <<>> /\ v.page = Absent
          /\ v.index = 0 /\ v.history = <<FirstPage>>
        BY <1>1, <2>2 DEF Ui
    <2>7. ~v.page.present /\ TrueView(v, untold)
        BY <2>6, EmptyView DEF Absent
    <2>8. t = [kind |-> "page", scan |-> u.scan, query |-> u.query, sort |-> u.sort,
               cursor |-> FirstPage, index |-> 0, history |-> <<FirstPage>>]
        BY <2>1 DEF PageTask
    <2>9. t.kind = "page" /\ OfTheView(t, v)
        BY <2>6, <2>8, FirstPlace DEF OfTheView, Placed, PathOK
    <2>10. PICK f : f = Started(u, t)
        OBVIOUS
    <2>11. f # Idle /\ f.at = "sent" /\ FlightTrue(f, v) /\ OfTheQueryShown(f, v)
        BY <2>5, <2>9, <2>10, PageStart
    <2>12. UpToDate(v, sessions, untold)
        BY <1>1, <2>6 DEF UpToDate
    <2>13. PageTrue(v, <<>>, f, sessions, untold)
        BY <2>7, <2>11, <2>12, StartTrue
    <2> QED
        BY <1>2, <2>3, <2>10, <2>13 DEF PageInv
<1>4. CASE ~u.query.selectedOnly
    <2>1. PICK t : t = PageTask(u, "page", flight.origin, u.index, u.history)
        OBVIOUS
    <2>2. ui' = u /\ flight' = Started(u, t) /\ queue' = <<>>
        BY <1>2, <1>4, <2>1 DEF Refresh
    <2>3. t = [kind |-> "page", scan |-> u.scan, query |-> u.query, sort |-> u.sort,
               cursor |-> flight.origin, index |-> u.index, history |-> u.history]
        BY <2>1 DEF PageTask
    <2>4. t.kind = "page" /\ OfTheView(t, u)
        BY <1>1, <1>2, <2>3 DEF OfTheView, Placed, PathOK
    <2>5. PICK f : f = Started(u, t)
        OBVIOUS
    <2>6. f # Idle /\ f.at = "sent" /\ FlightTrue(f, u) /\ OfTheQueryShown(f, u)
        BY <1>1, <2>4, <2>5, PageStart
    <2>7. TrueView(u, untold)
        BY <1>1, <1>4
    <2>8. PageTrue(u, <<>>, f, sessions, untold)
        BY <1>1, <1>2, <2>6, <2>7, StartTrue
    <2> QED
        BY <1>2, <2>2, <2>5, <2>8 DEF PageInv
<1> QED
    BY <1>3, <1>4

LEMMA SettleSelectionPage ==
    ASSUME ViewInv, PageInv, SettleSelection
    PROVE  PageInv'
<1>1. /\ flight # Idle /\ flight.at = "answered" /\ flight.call.call = "update"
      /\ UNCHANGED <<sessionVars, untold>>
    BY DEF SettleSelection, Idle
<1>2. flight.answer \in UpdateAnswers \cup Errors
    BY <1>1, FlightShape DEF UpdateFlight
<1>3. /\ ui \in Ui /\ TrueView(ui, untold) /\ sessions' = sessions /\ untold' = untold
      /\ queue = <<>> \/ (queue = <<FreshQuery(ui)>> /\ ~ui.page.present)
    BY <1>1 DEF ViewInv, Sound, PageInv, PageTrue, Orderly, sessionVars
<1>4. CASE flight.task.scan # ui.scan /\ Pump(ui, queue)
    <2>1. UpToDate(ui, sessions, untold)
        BY <1>4, ViewUpToDate DEF Brings
    <2>2. ~ui.page.present
        BY <1>1, <1>4 DEF PageInv, PageTrue, Orderly, OfTheQueryShown
    <2>3. TrueMarks(ui, untold)
        BY <2>2 DEF TrueMarks
    <2> QED
        BY <1>3, <1>4, <2>1, <2>3, QueuePumped
<1>5. CASE flight.task.scan = ui.scan /\ flight.answer.outcome = "updated"
    <2>1. PICK u : u = SelectionShown(flight.answer)
        OBVIOUS
    <2>2. /\ u \in Ui /\ u.scan = ui.scan /\ u.query = ui.query /\ u.sort = ui.sort
          /\ u.page = ui.page /\ UpToDate(u, sessions, untold)
          /\ (ui.page.present /\ ui.query.selectedOnly) \/ TrueView(u, untold)
        BY <1>1, <1>5, <2>1, SelectionShownPage
    <2>3. CASE u.query.revision = flight.call.query.revision
        <3>1. Refresh(u)
            BY <1>5, <2>1, <2>3 DEF SettleSelection
        <3> QED
            BY <1>1, <1>5, <2>1, <2>2, <2>3, <3>1, RefreshPage
    <2>4. CASE u.query.revision # flight.call.query.revision
        <3>1. Pump(u, queue)
            BY <1>5, <2>1, <2>4 DEF SettleSelection
        <3>2. ~ui.page.present
            BY <1>1, <2>2, <2>4 DEF PageInv, PageTrue, Orderly, OfTheQueryShown
        <3>3. TrueView(u, untold) /\ TrueMarks(u, untold)
            BY <2>2, <3>2 DEF TrueMarks
        <3>4. FreshQuery(u) = FreshQuery(ui)
            BY <2>2 DEF FreshQuery, PageTask
        <3> QED
            BY <1>3, <2>2, <3>1, <3>2, <3>3, <3>4, QueuePumped
    <2> QED
        BY <2>3, <2>4
<1>6. CASE flight.task.scan = ui.scan /\ flight.answer.outcome # "updated"
    <2>1. UpToDate(ui, sessions, untold)
        BY <1>6, ViewUpToDate DEF Brings
    <2>2. flight.answer.outcome \in Codes
        BY <1>2, <1>6 DEF UpdateAnswers, Errors
    <2>3. CASE Recover(ui)
        BY <1>1, <2>1, <2>3, RecoverPage
    <2>4. CASE Pump(FailedWith(ui, flight.answer.outcome), queue)
        BY <1>1, <2>1, <2>2, <2>4, FailedPage
    <2> QED
        BY <1>6, <2>3, <2>4 DEF SettleSelection
<1> QED
    BY <1>4, <1>5, <1>6 DEF SettleSelection

-----------------------------------------------------------------------------
(* The theorem.                                                            *)

LEMMA PageInit == Init => PageInv
<1> SUFFICES ASSUME Init PROVE PageInv
    OBVIOUS
<1>1. /\ queue = <<>> /\ flight = Idle /\ untold = FALSE /\ ui = InitialUi(NoScan)
    BY DEF Init
<1>2. /\ ui.scan = NoScan /\ ~ui.page.present /\ ui.cache = <<>> /\ ui.index = 0
      /\ ui.history = <<FirstPage>>
    BY <1>1 DEF InitialUi, Absent
<1>3. TrueView(ui, untold) /\ TrueMarks(ui, untold)
    BY <1>2, EmptyView
<1>4. UpToDate(ui, sessions, untold)
    BY <1>2, ScanIsItsScan DEF UpToDate
<1> QED
    BY <1>1, <1>3, <1>4, RestTrue DEF PageInv

LEMMA PageStep ==
    ASSUME "loading" \notin InputErrors
    PROVE  ViewInv /\ PageInv /\ [Next]_vars => PageInv'
<1> SUFFICES ASSUME ViewInv, PageInv, [Next]_vars PROVE PageInv'
    OBVIOUS
<1>1. CASE UNCHANGED vars
    BY <1>1 DEF PageInv, vars, sessionVars, uiVars
<1>2. CASE HideScan
    BY <1>2, HideScanPage
<1>3. CASE \E s \in Scans : ShowScan(s)
    BY <1>3, ShowScanPage
<1>4. CASE \E filter \in DOMAIN Filters, selectedOnly \in BOOLEAN,
              sort \in DOMAIN Ranking : ScheduleIntent(filter, selectedOnly, sort)
    BY <1>4, ScheduleIntentPage
<1>5. CASE RefuseInput
    BY <1>5, RefuseInputPage
<1>6. CASE NextPage
    BY <1>6, NextPagePage
<1>7. CASE PreviousPage
    BY <1>7, PreviousPagePage
<1>8. CASE \E operation \in Operations : ClickSelection(operation)
    BY <1>8, ClickSelectionPage
<1>9. CASE NativeCall
    BY <1>9, NativeCallPage
<1>10. CASE SettlePage
    BY <1>10, SettlePagePage
<1>11. CASE SettleSelection
    BY <1>11, SettleSelectionPage
<1> QED
    BY <1>1, <1>2, <1>3, <1>4, <1>5, <1>6, <1>7, <1>8, <1>9, <1>10, <1>11
    DEF Next, User, System

(* The page shown under number n is the n-th page of the query, the sort   *)
(* and the selection that are shown, and at rest its check boxes are the   *)
(* selection, if the user enters no search text or score range that is     *)
(* refused while a page loads.                                             *)
THEOREM PagesAreTrue ==
    ASSUME "loading" \notin InputErrors
    PROVE  Spec => []PageIsTrue
<1>1. ViewInv /\ PageInv => PageIsTrue
    <2> SUFFICES ASSUME ViewInv, PageInv, Shown, ~untold
                 PROVE  /\ ui.page.value.rows = RowsAt(ui.index)
                        /\ flight = Idle /\ ui.error = "none" =>
                              ui.page.value.marked =
                                 ui.selection.value.selected
                                 \cap Range(ui.page.value.rows)
        BY DEF PageIsTrue
    <2>1. ui.page.present /\ ui.index \in Nat
        BY DEF Shown, ViewInv, Sound, Ui
    <2>2. /\ ui.page.value.query = ui.query /\ At(ui.page.value.cursor, ui.index)
          /\ RowsOK(ui.page.value, ui.sort, ui.selection.value.selected)
        BY <2>1 DEF PageInv, PageTrue, TrueView, ShownTrue
    <2>3. ui.page.value.rows = RowsAt(ui.index)
        BY <2>1, <2>2, NextPlace DEF At, RowsOK, PageAfter, Rows, RowsAt
    <2>4. flight = Idle /\ ui.error = "none" =>
             MarksOK(ui.page.value, ui.selection.value.selected)
        BY <2>1 DEF PageInv, PageTrue, TrueMarks
    <2> QED
        BY <2>3, <2>4 DEF MarksOK
<1>2. Spec => []ViewInv
    BY ViewHolds
<1>3. Init => PageInv
    BY PageInit
<1>4. ViewInv /\ PageInv /\ [Next]_vars => PageInv'
    BY PageStep
<1> QED
    BY <1>1, <1>2, <1>3, <1>4, PTL DEF Spec
=============================================================================
