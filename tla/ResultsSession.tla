--------------------------- MODULE ResultsSession ---------------------------
(***************************************************************************)
(* The results a scan session serves and the selection made on them:       *)
(* apps/desktop/src-tauri/src/results.rs, and the commands of storage.rs   *)
(* that reach it.  Each command runs under the storage lock, so it is one  *)
(* step; what a caller is told of it is given by PageAnswer and            *)
(* UpdateAnswer.                                                           *)
(*                                                                         *)
(* Abstracted: what a filter looks at (Filters), how a sort compares       *)
(* (Ranking, total because ids break ties), facets and the summary's       *)
(* counts, of which the selected set and its revision remain.  A query id  *)
(* and a cursor are digests: here they are the fields that are digested.   *)
(***************************************************************************)
EXTENDS Naturals, Sequences, FiniteSetsExt, Lists

CONSTANTS
    Scans,          \* scan ids, each used for one scan
    Candidates,     \* candidate ids
    MaxScans,       \* MAX_SCAN_SESSIONS
    MaxRevision,    \* the last selection_revision
    Filters,        \* name of a filter -> the candidates it admits
    Ranking,        \* name of a sort -> the candidates in its order
    PageLimit,      \* CANDIDATE_PAGE_LIMIT
    Size,           \* candidate -> its logical size
    MaxBytes        \* u64::MAX

ASSUME SessionAssumption ==
    /\ MaxScans \in Nat \ {0} /\ MaxRevision \in Nat
    /\ PageLimit \in Nat \ {0} /\ MaxBytes \in Nat
    /\ Filters \in [DOMAIN Filters -> SUBSET Candidates]
    /\ Ranking \in [DOMAIN Ranking -> Seq(Candidates)]
    /\ Size \in [Candidates -> Nat]

VARIABLES
    sessions,   \* DesktopStorageState.scans
    order       \* scan_order, oldest first

sessionVars == <<sessions, order>>

-----------------------------------------------------------------------------
(* Data.                                                                   *)

(* CandidateQuery: the client numbers its queries.                         *)
Query == [filter : DOMAIN Filters, selectedOnly : BOOLEAN, revision : Nat]

(* The null cursor, and the cursors of pages that are not the first.       *)
FirstPage == [end |-> 0]
Cursor    == [end : Nat \ {0}, query : Query, sort : DOMAIN Ranking,
              selection : 0 .. MaxRevision]

(* BoundCandidateQuery.                                                    *)
Unbound == [bound |-> FALSE]
Binding == [bound : {TRUE}, query : Query, sort : DOMAIN Ranking,
            selection : 0 .. MaxRevision, cursors : SUBSET Cursor]

NewSession == [kept |-> "new", selected |-> {}, revision |-> 0,
               active |-> Unbound]

Evicted == [NewSession EXCEPT !.kept = "evicted"]

Kept(s) == sessions[s].kept = "kept"

Told(session) == [revision |-> session.revision, selected |-> session.selected]

Error(code) == [outcome |-> code]

SessionInit == sessions = [s \in Scans |-> NewSession] /\ order = <<>>

-----------------------------------------------------------------------------
(* store_session: one session too many evicts the oldest.                  *)

StoreSession(s) ==
    /\ sessions[s].kept = "new"
    /\ IF Len(order) < MaxScans
       THEN /\ sessions' = [sessions EXCEPT ![s].kept = "kept"]
            /\ order' = Append(order, s)
       ELSE /\ sessions' = [sessions EXCEPT ![s].kept = "kept",
                                            ![Head(order)] = Evicted]
            /\ order' = Append(Tail(order), s)

-----------------------------------------------------------------------------
(* query_candidate_page.                                                   *)

Matches(c, query, selected) ==
    /\ c \in Filters[query.filter]
    /\ query.selectedOnly => c \in selected

Listing(session, query, sort) ==
    Filter(Ranking[sort], {c \in Candidates : Matches(c, query, session.selected)})

Serves(session, query, sort) ==
    /\ session.active.bound
    /\ session.active.query = query /\ session.active.sort = sort
    /\ query.selectedOnly => session.active.selection = session.revision

Accepts(session, query, sort, cursor) ==
    \/ cursor = FirstPage
    \/ /\ Serves(session, query, sort)
       /\ cursor \in session.active.cursors
       /\ cursor.end <= Len(Listing(session, query, sort))

(* Where the page of a listing ends that starts after a cursor.            *)
PageEnd(listing, cursor) ==
    IF cursor.end + PageLimit < Len(listing) THEN cursor.end + PageLimit
                                             ELSE Len(listing)

NextCursor(session, query, sort, cursor) ==
    LET listing == Listing(session, query, sort)
        end == PageEnd(listing, cursor)
    IN  IF end < Len(listing)
        THEN [end |-> end, query |-> query, sort |-> sort,
              selection |-> IF query.selectedOnly THEN session.revision ELSE 0]
        ELSE FirstPage

(* A first page starts a new binding, which has issued no cursor; every    *)
(* page but the last issues one.                                           *)
Rebound(session, query, sort, cursor) ==
    LET binding == IF cursor = FirstPage
                   THEN [bound |-> TRUE, query |-> query, sort |-> sort,
                         selection |-> session.revision, cursors |-> {}]
                   ELSE session.active
        next == NextCursor(session, query, sort, cursor)
    IN  [binding EXCEPT !.cursors = @ \cup ({next} \ {FirstPage})]

QueryCandidatePage(s, query, sort, cursor) ==
    /\ sessions' = IF Kept(s) /\ Accepts(sessions[s], query, sort, cursor)
                   THEN [sessions EXCEPT
                           ![s].active = Rebound(sessions[s], query, sort, cursor)]
                   ELSE sessions
    /\ UNCHANGED order

PageAnswer(s, query, sort, cursor) ==
    LET session == sessions[s]
        listing == Listing(session, query, sort)
        rows == SubSeq(listing, cursor.end + 1, PageEnd(listing, cursor))
    IN  IF ~Kept(s) THEN Error("incompatible")
        ELSE IF ~Accepts(session, query, sort, cursor) THEN Error("cursorStale")
        ELSE [outcome |-> "page", query |-> query, cursor |-> cursor,
              next |-> NextCursor(session, query, sort, cursor),
              rows |-> rows,
              marked |-> {rows[i] : i \in DOMAIN rows} \cap session.selected,
              selection |-> Told(session)]

-----------------------------------------------------------------------------
(* update_candidate_selection.                                             *)

Operation == [kind : {"set", "clear"}, ids : SUBSET Candidates \ {{}}]
             \cup [kind : {"selectAllMatching", "clearMatching", "clearAll"}]

(* selection_summary refuses a selection whose bytes do not fit an u64.    *)
Fits(selected) == MapThenSumSet(LAMBDA c : Size[c], selected) <= MaxBytes

MatchingOf(session) ==
    {c \in Candidates : Matches(c, session.active.query, session.selected)}

Proposed(session, operation) ==
    CASE operation.kind = "set"               -> session.selected \cup operation.ids
      [] operation.kind = "clear"             -> session.selected \ operation.ids
      [] operation.kind = "selectAllMatching" -> session.selected \cup MatchingOf(session)
      [] operation.kind = "clearMatching"     -> session.selected \ MatchingOf(session)
      [] operation.kind = "clearAll"          -> {}

(* Bug: an update is taken from a client that has not seen the last one.   *)
RefusalBug(s, query, operation, expected) ==
    IF ~Kept(s) THEN "incompatible" ELSE
    IF ~(sessions[s].active.bound /\ sessions[s].active.query = query)
       THEN "queryInvalid" ELSE
    IF sessions[s].revision = MaxRevision THEN "incompatible" ELSE
    IF ~Fits(Proposed(sessions[s], operation)) THEN "incompatible" ELSE "none"

(* Why an update is refused, in the order of the code.                     *)
Refusal(s, query, operation, expected) ==
    IF ~Kept(s) THEN "incompatible" ELSE
    IF sessions[s].revision # expected THEN "selectionStale" ELSE
    IF ~(sessions[s].active.bound /\ sessions[s].active.query = query)
       THEN "queryInvalid" ELSE
    IF sessions[s].revision = MaxRevision THEN "incompatible" ELSE
    IF ~Fits(Proposed(sessions[s], operation)) THEN "incompatible" ELSE "none"

(* Bug: an update that selects nothing is not counted.                     *)
UpdatedBug(session, operation) ==
    [session EXCEPT !.selected = Proposed(session, operation),
                    !.revision = IF Proposed(session, operation) = {} THEN @ ELSE @ + 1]

Updated(session, operation) ==
    [session EXCEPT !.selected = Proposed(session, operation), !.revision = @ + 1]

UpdateCandidateSelection(s, query, operation, expected) ==
    /\ sessions' = IF Refusal(s, query, operation, expected) = "none"
                   THEN [sessions EXCEPT ![s] = Updated(@, operation)]
                   ELSE sessions
    /\ UNCHANGED order

UpdateAnswer(s, query, operation, expected) ==
    LET refusal == Refusal(s, query, operation, expected)
    IN  IF refusal # "none" THEN Error(refusal)
        ELSE [outcome |-> "updated", query |-> query,
              selection |-> Told(Updated(sessions[s], operation))]

-----------------------------------------------------------------------------
(* The sessions as the restore coordinator sees them.                      *)

Store == INSTANCE SelectionStore WITH
    scans <- [s \in Scans |-> [kept     |-> sessions[s].kept,
                               selected |-> sessions[s].selected,
                               revision |-> sessions[s].revision]]
=============================================================================
