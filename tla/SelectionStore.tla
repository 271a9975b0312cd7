--------------------------- MODULE SelectionStore ---------------------------
(***************************************************************************)
(* The scan sessions of the desktop process as the commands that depend on *)
(* a selection see them (apps/desktop/src-tauri/src/storage.rs): a session *)
(* is stored under a fresh id, its selection changes together with its     *)
(* revision, and the oldest session is evicted when there are too many.    *)
(* ResultsSession details how a selection changes.                         *)
(***************************************************************************)
EXTENDS Naturals, Sequences

CONSTANTS
    Scans,          \* scan ids, each used for one scan
    Candidates,     \* candidate ids
    MaxScans,       \* MAX_SCAN_SESSIONS
    MaxRevision     \* bound on selection_revision

ASSUME StoreAssumption == MaxScans \in Nat \ {0} /\ MaxRevision \in Nat

VARIABLES
    scans,      \* DesktopStorageState.scans
    order       \* scan_order, oldest first

storeVars == <<scans, order>>

Session    == [kept     : {"new", "kept", "evicted"},
               selected : SUBSET Candidates,
               revision : 0 .. MaxRevision]
NewSession == [kept |-> "new", selected |-> {}, revision |-> 0]

Evicted    == [NewSession EXCEPT !.kept = "evicted"]

Kept(s) == scans[s].kept = "kept"

StoreInit == scans = [s \in Scans |-> NewSession] /\ order = <<>>

(* Bug: the list is measured before the session is in it.                  *)
StoreSessionBug(s) ==
    /\ scans[s].kept = "new"
    /\ IF Len(order) <= MaxScans
       THEN /\ scans' = [scans EXCEPT ![s].kept = "kept"]
            /\ order' = Append(order, s)
       ELSE /\ scans' = [scans EXCEPT ![s].kept = "kept",
                                      ![Head(order)] = Evicted]
            /\ order' = Append(Tail(order), s)

(* The sessions after s was stored: one too many evicts the oldest.        *)
StoreSession(s) ==
    /\ scans[s].kept = "new"
    /\ IF Len(order) < MaxScans
       THEN /\ scans' = [scans EXCEPT ![s].kept = "kept"]
            /\ order' = Append(order, s)
       ELSE /\ scans' = [scans EXCEPT ![s].kept = "kept",
                                      ![Head(order)] = Evicted]
            /\ order' = Append(Tail(order), s)

(* Bug: the revision is counted only when something is added.              *)
ChangeSelectionBug(s, chosen) ==
    /\ Kept(s) /\ scans[s].revision < MaxRevision
    /\ scans' = [scans EXCEPT ![s].selected = chosen,
                              ![s].revision = IF chosen = {} THEN @ ELSE @ + 1]
    /\ UNCHANGED order

ChangeSelection(s, chosen) ==
    /\ Kept(s) /\ scans[s].revision < MaxRevision
    /\ scans' = [scans EXCEPT ![s].selected = chosen, ![s].revision = @ + 1]
    /\ UNCHANGED order

StoreNext ==
    \E s \in Scans :
       StoreSession(s) \/ \E chosen \in SUBSET Candidates : ChangeSelection(s, chosen)

StoreSpec == StoreInit /\ [][StoreNext]_storeVars

StoreTypeOK ==
    /\ scans \in [Scans -> Session]
    /\ order \in Seq(Scans) /\ Len(order) <= MaxScans
=============================================================================
