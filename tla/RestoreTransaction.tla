------------------------- MODULE RestoreTransaction -------------------------
(***************************************************************************)
(* The transactional restore engine, crates/restore/src/transaction.rs and *)
(* the job journal it writes, crates/restore/src/journal.rs.               *)
(*                                                                         *)
(* One worker runs restore_job_observed_with_runtime: a loop over the      *)
(* immutable plan that prepares each item, records the intent in a         *)
(* hash-chained journal, publishes the item under a final name with a      *)
(* primitive that never replaces a name (hard link, create_dir), records   *)
(* what it published, and at the end publishes a manifest of the outcomes  *)
(* the same way.  One action is the code between two system calls that can *)
(* fail or be seen from outside, so a crash, a power loss, a cancellation  *)
(* or a name created by somebody else can fall between any two of them.    *)
(*                                                                         *)
(* Abstracted: file contents and hashes; the temporary names, which are    *)
(* unique; identity checks before a link, which are one more way for the   *)
(* link to fail; parent paths deeper than one directory.  Assumed of the   *)
(* file system: sync_all on a directory makes its entries, and the         *)
(* directory itself, survive a power loss.                                 *)
(***************************************************************************)
EXTENDS Integers, Sequences, FiniteSets, EngineReports

CONSTANTS
    Names,          \* the names an entry of the job directory can have
    Root,           \* the job directory itself, as a parent
    Manifest,       \* MANIFEST_NAME
    Plan,           \* RestoreJobPlan.items
    CollisionName,  \* collision_name, a function of a base name and an attempt
    MaxAttempts,    \* MAX_COLLISION_ATTEMPTS
    MaxRecords,     \* MAX_JOURNAL_RECORDS
    MaxForeign      \* bound: how many names other programs create

Directories == Names \cup {Root}
Locations   == Directories \X Names
NoLocation  == <<Root, Root>>
ManifestAt  == <<Root, Manifest>>

PlanItem == [kind       : {"file", "directory"},
             dir        : Directories,   \* the parent components of its path
             base       : Names,         \* the file name of its path
             sidecar    : Names,         \* partial_sidecar_base_name
             bestEffort : BOOLEAN]       \* policy ZeroFillAndMap

ASSUME NamesAssumption      == Manifest \in Names /\ Root \notin Names
ASSUME PlanAssumption       == Plan \in Seq(PlanItem) /\ Plan # <<>>
ASSUME BoundsAssumption     == /\ MaxAttempts \in Nat \ {0}
                               /\ MaxRecords \in Nat
                               /\ MaxForeign \in Nat
ASSUME CollisionAssumption  ==
    CollisionName \in [Names \X (0 .. MaxAttempts - 1) -> Names]

Items == 1 .. Len(Plan)

(***************************************************************************)
(* Data.  A record of the journal names the item and the place it is       *)
(* about and, for a publication, whether the parent was synchronized.      *)
(***************************************************************************)
RecordKinds == {"jobStarted", "itemPrepared", "itemSidecarPublished",
                "directoryPublicationPlanned", "itemPublished",
                "directoryReconciliationRequired", "itemFailed",
                "itemCancelled", "manifestPrepared", "manifestPublished",
                "jobCompleted", "jobFailed", "jobCancelled"}

Record == [kind : RecordKinds, item : 0 .. Len(Plan),
           at : Locations \cup {NoLocation}, durable : BOOLEAN]

Rec(k, i, l, d) == [kind |-> k, item |-> i, at |-> l, durable |-> d]

(* What a failed append leaves after the synchronized records.             *)
Nothing == [kind |-> "nothing"]
Torn    == [kind |-> "torn"]
Tails   == Record \cup {Nothing, Torn}

EntryKinds == {"none", "parent", "sidecar", "data", "directory", "manifest",
               "foreignFile", "foreignDirectory"}
Entry      == [kind : EntryKinds, owner : 0 .. Len(Plan), durable : BOOLEAN]
NoEntry    == [kind |-> "none", owner |-> 0, durable |-> FALSE]
New(k, i)  == [kind |-> k, owner |-> i, durable |-> FALSE]

DirectoryKinds == {"parent", "directory", "foreignDirectory"}

Errors == {"restoreFailure", "cancelled", "collisionLimit",
           "hardLinkPublication", "needsReconciliation",
           "journalDurability", "journalRecordLimit"}

Dispositions == {"published", "directoryCreated",
                 "directoryNeedsReconciliation", "failed", "cancelled",
                 "notAttempted"}

Phases == {"createJob", "journalStarted", "itemStart", "openParents",
           "stream", "journalPrepared", "linkSidecar", "syncSidecar",
           "journalSidecar", "linkData", "planDirectory", "createDirectory",
           "bindDirectory", "journalReconciliation", "syncData",
           "journalPublished", "journalItemFailure", "prepareManifest",
           "journalManifestPrepared", "linkManifest", "journalLinkFailure",
           "syncManifest", "journalManifestPublished", "journalTerminal",
           "returned"}

VARIABLES
    pc,         \* where the worker is
    index,      \* item_index, counted from 1
    attempt,    \* collision_index
    partial,    \* per item: the streamed content needs best effort
    sidecar,    \* published_sidecar of the current item
    here,       \* final name of the current item
    synced,     \* the merged NamespaceDurability is Synced
    journal,    \* the records whose append succeeded
    tail,       \* bytes of the append that failed
    poisoned,   \* JobJournal.poisoned
    tree,       \* the entries of the job directory and of its directories
    cancel,     \* the cancellation probe
    results,    \* RestoreItemResult of the items that returned Ok
    failure,    \* the terminal item's error, if any
    manifest,   \* contents of the prepared manifest
    observed,   \* per item: what the observer was told last
    announced,  \* manifest_published was called
    returned,   \* result of the call
    power,      \* "on", "killed" (process crash), "lost" (power loss)
    foreign     \* names created by other programs so far

journalVars == <<journal, tail, poisoned>>
itemVars    == <<index, attempt, partial, sidecar, here, synced>>
reportVars  == <<results, failure, manifest, observed, announced>>
envVars     == <<cancel, power, foreign>>
vars == <<pc, itemVars, journalVars, tree, reportVars, returned, envVars>>

NoFailure  == [error |-> "none", published |-> FALSE, durable |-> FALSE,
               sidecar |-> NoLocation]
NoManifest == [prefix |-> 0, outcomes |-> <<>>, sidecars |-> <<>>]

Init ==
    /\ pc = "createJob"
    /\ index = 1 /\ attempt = 0
    /\ partial = [i \in Items |-> FALSE]
    /\ sidecar = NoLocation /\ here = NoLocation
    /\ synced = TRUE
    /\ journal = <<>> /\ tail = Nothing /\ poisoned = FALSE
    /\ tree = [l \in Locations |-> NoEntry]
    /\ cancel = FALSE
    /\ results = <<>> /\ failure = NoFailure /\ manifest = NoManifest
    /\ observed = [i \in Items |-> "pending"]
    /\ announced = FALSE /\ returned = "none"
    /\ power = "on" /\ foreign = 0

-----------------------------------------------------------------------------
(* Pieces of the actions.  A definition whose name ends in Bug belongs to  *)
(* no specification: it is the definition after it with a programming      *)
(* error, on which the property that should notice is tried.               *)

Item  == Plan[index]
At(p) == power = "on" /\ pc = p
Goto(p) == pc' = p /\ UNCHANGED returned
Return(r) == pc' = "returned" /\ returned' = r

Appended(r) ==
    /\ ~poisoned /\ Len(journal) < MaxRecords
    /\ journal' = Append(journal, r)
    /\ UNCHANGED <<tail, poisoned>>

(* The record limit is reported without poisoning the journal; a failed    *)
(* write, flush or sync poisons it, and may leave nothing, a piece or all  *)
(* of the record in the file.                                              *)
AppendFailed(r, error) ==
    \/ /\ ~poisoned /\ Len(journal) >= MaxRecords
       /\ error = "journalRecordLimit"
       /\ UNCHANGED journalVars
    \/ /\ ~poisoned /\ Len(journal) < MaxRecords
       /\ error = "journalDurability"
       /\ poisoned' = TRUE
       /\ tail' \in {Nothing, Torn, r}
       /\ UNCHANGED journal

Place(l, e) == tree' = [tree EXCEPT ![l] = e]
Free(l)     == tree[l].kind = "none"

(* Bug: the job directory is synchronized instead of the parent.           *)
SyncParentBug(d, ok) ==
    tree' = IF ok
            THEN [l \in Locations |->
                    IF l[1] = Root /\ ~Free(l)
                    THEN [tree[l] EXCEPT !.durable = TRUE]
                    ELSE tree[l]]
            ELSE tree

SyncParent(d, ok) ==
    tree' = IF ok
            THEN [l \in Locations |->
                    IF (l[1] = d \/ l = <<Root, d>>) /\ ~Free(l)
                    THEN [tree[l] EXCEPT !.durable = TRUE]
                    ELSE tree[l]]
            ELSE tree

(* Bug: a failed item goes straight to the manifest, unobserved.           *)
FailItemSilentBug(error, published) ==
    /\ failure' = [error |-> error, published |-> published,
                   durable |-> synced', sidecar |-> NoLocation]
    /\ UNCHANGED observed
    /\ Goto("prepareManifest")

(* The Err arm of the item loop.  A poisoned journal ends the call before  *)
(* the observer hears of the failure.                                      *)
FailItem(error, published) ==
    \/ /\ poisoned'
       /\ Return(error)
       /\ UNCHANGED <<failure, observed>>
    \/ /\ ~poisoned'
       /\ failure' = [error |-> error, published |-> published,
                      durable |-> synced', sidecar |-> sidecar']
       /\ observed' = [observed EXCEPT ![index] =
                         IF published THEN "directoryNeedsReconciliation"
                         ELSE IF error = "cancelled" THEN "cancelled" ELSE "failed"]
       /\ Goto(IF published THEN "prepareManifest" ELSE "journalItemFailure")

-----------------------------------------------------------------------------
(* The job and the item loop.                                              *)

CreateJob ==
    /\ At("createJob")
    /\ Goto("journalStarted") \/ Return("restoreFailure")
    /\ UNCHANGED <<itemVars, journalVars, tree, reportVars, envVars>>

JournalStarted ==
    /\ At("journalStarted")
    /\ LET r == Rec("jobStarted", 0, NoLocation, FALSE)
       IN  \/ Appended(r) /\ Goto("itemStart")
           \/ \E e \in Errors : AppendFailed(r, e) /\ Return(e)
    /\ UNCHANGED <<itemVars, tree, reportVars, envVars>>

ItemStart ==
    /\ At("itemStart") /\ index <= Len(Plan)
    /\ attempt' = 0 /\ sidecar' = NoLocation /\ here' = NoLocation
    /\ synced' = TRUE
    /\ \/ /\ cancel
          /\ failure' = [NoFailure EXCEPT !.error = "cancelled"]
          /\ observed' = [observed EXCEPT ![index] = "cancelled"]
          /\ Goto("journalItemFailure")
       \/ /\ ~cancel
          /\ observed' = [observed EXCEPT ![index] = "started"]
          /\ Goto("openParents")
          /\ UNCHANGED failure
    /\ UNCHANGED <<index, partial, journalVars, tree, results, manifest,
                   announced, envVars>>

(* Bug: the last item is never reached.                                    *)
ItemsDoneBug ==
    /\ At("itemStart") /\ index >= Len(Plan)
    /\ Goto("prepareManifest")
    /\ UNCHANGED <<itemVars, journalVars, tree, reportVars, envVars>>

ItemsDone ==
    /\ At("itemStart") /\ index > Len(Plan)
    /\ Goto("prepareManifest")
    /\ UNCHANGED <<itemVars, journalVars, tree, reportVars, envVars>>

(* open_or_create_parents: a missing parent is created, and the call can   *)
(* still fail after that.                                                  *)
OpenParents ==
    LET parent  == <<Root, Item.dir>>
        exists  == Item.dir # Root => tree[parent].kind \in DirectoryKinds
        proceed == /\ Goto(IF Item.kind = "file" THEN "stream"
                           ELSE "journalPrepared")
                   /\ UNCHANGED <<failure, observed>>
    IN  /\ At("openParents")
        /\ UNCHANGED <<itemVars, journalVars, results, manifest, announced,
                       envVars>>
        /\ \/ exists /\ proceed /\ UNCHANGED tree
           \/ /\ Item.dir # Root /\ Free(parent)
              /\ Place(parent, New("parent", 0))
              /\ proceed \/ FailItem("restoreFailure", FALSE)
           \/ FailItem("restoreFailure", FALSE) /\ UNCHANGED tree

(* prepare_stream and the temporary of the sidecar.  Cancellation is       *)
(* polled before every chunk.                                              *)
Stream ==
    /\ At("stream")
    /\ UNCHANGED <<index, attempt, sidecar, here, synced, journalVars, tree,
                   results, manifest, announced, envVars>>
    /\ \/ /\ \E p \in {FALSE, Item.bestEffort} :
                partial' = [partial EXCEPT ![index] = p]
          /\ Goto("journalPrepared")
          /\ UNCHANGED <<failure, observed>>
       \/ FailItem("restoreFailure", FALSE) /\ UNCHANGED partial
       \/ cancel /\ FailItem("cancelled", FALSE) /\ UNCHANGED partial

(* Bug: the error of the append is ignored.                                *)
JournalPreparedUncheckedBug ==
    LET r == Rec("itemPrepared", index, NoLocation, FALSE)
    IN  /\ At("journalPrepared")
        /\ UNCHANGED <<itemVars, tree, reportVars, envVars>>
        /\ Appended(r) \/ \E e \in Errors : AppendFailed(r, e)
        /\ Goto(IF Item.kind = "directory" THEN "planDirectory" ELSE "linkData")

JournalPrepared ==
    LET r == Rec("itemPrepared", index, NoLocation, FALSE)
    IN  /\ At("journalPrepared")
        /\ UNCHANGED <<itemVars, tree, results, manifest, announced, envVars>>
        /\ \/ /\ Appended(r)
              /\ Goto(IF Item.kind = "directory" THEN "planDirectory"
                      ELSE IF partial[index] THEN "linkSidecar"
                      ELSE "linkData")
              /\ UNCHANGED <<failure, observed>>
           \/ \E e \in Errors : AppendFailed(r, e) /\ FailItem(e, FALSE)

-----------------------------------------------------------------------------
(* Publication of a file: the sidecar of a partial one, then the data.     *)

Candidate(base) == <<Item.dir, CollisionName[base, attempt]>>

(* A taken name moves on to the next collision name, phase p, up to the    *)
(* limit; the other variables of the step are left alone.  Bug: one too    *)
(* many.                                                                   *)
NextNameOverrunBug(l, p) ==
    /\ ~Free(l) /\ attempt < MaxAttempts
    /\ attempt' = attempt + 1
    /\ Goto(p)
    /\ UNCHANGED <<tree, failure, observed>>

(* Bug: the loop over the names can be cancelled.                          *)
NextNameCancelBug(l, p) ==
    /\ ~Free(l)
    /\ UNCHANGED <<tree, attempt>>
    /\ FailItem(IF cancel THEN "cancelled" ELSE "collisionLimit", FALSE)

NextName(l, p) ==
    /\ ~Free(l)
    /\ UNCHANGED tree
    /\ \/ /\ attempt + 1 < MaxAttempts
          /\ attempt' = attempt + 1
          /\ Goto(p)
          /\ UNCHANGED <<failure, observed>>
       \/ /\ attempt + 1 = MaxAttempts
          /\ UNCHANGED attempt
          /\ FailItem("collisionLimit", FALSE)

LinkSidecar ==
    LET l == Candidate(Item.sidecar)
    IN  /\ At("linkSidecar")
        /\ UNCHANGED <<index, partial, here, synced, journalVars, results,
                       manifest, announced, envVars>>
        /\ \/ /\ Free(l)
              /\ Place(l, New("sidecar", index))
              /\ sidecar' = l
              /\ Goto("syncSidecar")
              /\ UNCHANGED <<attempt, failure, observed>>
           \/ UNCHANGED sidecar /\ NextName(l, "linkSidecar")
           \/ /\ UNCHANGED <<attempt, sidecar, tree>>
              /\ FailItem("hardLinkPublication", FALSE)

(* Bug: the data is linked before its sidecar is recorded.                 *)
SyncSidecarBug ==
    /\ At("syncSidecar")
    /\ \E ok \in BOOLEAN : SyncParent(Item.dir, ok) /\ synced' = ok
    /\ attempt' = 0
    /\ Goto("linkData")
    /\ UNCHANGED <<index, partial, sidecar, here, journalVars, reportVars,
                   envVars>>

SyncSidecar ==
    /\ At("syncSidecar")
    /\ \E ok \in BOOLEAN : SyncParent(Item.dir, ok) /\ synced' = ok
    /\ Goto("journalSidecar")
    /\ UNCHANGED <<index, attempt, partial, sidecar, here, journalVars,
                   reportVars, envVars>>

(* Bug: the data gets its name although the sidecar was not recorded.      *)
JournalSidecarUncheckedBug ==
    LET r == Rec("itemSidecarPublished", index, sidecar, synced)
    IN  /\ At("journalSidecar")
        /\ UNCHANGED <<index, partial, sidecar, here, synced, tree, reportVars,
                       envVars>>
        /\ Appended(r) \/ \E e \in Errors : AppendFailed(r, e)
        /\ attempt' = 0
        /\ Goto("linkData")

JournalSidecar ==
    LET r == Rec("itemSidecarPublished", index, sidecar, synced)
    IN  /\ At("journalSidecar")
        /\ UNCHANGED <<index, partial, sidecar, here, synced, tree, results,
                       manifest, announced, envVars>>
        /\ \/ /\ Appended(r)
              /\ attempt' = 0
              /\ Goto("linkData")
              /\ UNCHANGED <<failure, observed>>
           \/ /\ \E e \in Errors : AppendFailed(r, e)
              /\ UNCHANGED attempt
              /\ FailItem("needsReconciliation", FALSE)

LinkData ==
    LET l == Candidate(Item.base)
    IN  /\ At("linkData")
        /\ UNCHANGED <<index, partial, sidecar, synced, journalVars, results,
                       manifest, announced, envVars>>
        /\ \/ /\ Free(l)
              /\ Place(l, New("data", index))
              /\ here' = l
              /\ Goto("syncData")
              /\ UNCHANGED <<attempt, failure, observed>>
           \/ NextName(l, "linkData") /\ UNCHANGED here
           \/ /\ FailItem("hardLinkPublication", FALSE)
              /\ UNCHANGED <<attempt, here, tree>>

-----------------------------------------------------------------------------
(* Publication of a directory: no hard link, so every name is recorded     *)
(* before it is tried.                                                     *)

PlanDirectory ==
    LET r == Rec("directoryPublicationPlanned", index, Candidate(Item.base),
                 FALSE)
    IN  /\ At("planDirectory")
        /\ UNCHANGED <<itemVars, tree, results, manifest, announced, envVars>>
        /\ \/ /\ Appended(r)
              /\ Goto("createDirectory")
              /\ UNCHANGED <<failure, observed>>
           \/ \E e \in Errors : AppendFailed(r, e) /\ FailItem(e, FALSE)

CreateDirectory ==
    LET l == Candidate(Item.base)
    IN  /\ At("createDirectory")
        /\ UNCHANGED <<index, partial, sidecar, synced, journalVars, results,
                       manifest, announced, envVars>>
        /\ \/ /\ Free(l)
              /\ Place(l, New("directory", index))
              /\ here' = l
              /\ Goto("bindDirectory")
              /\ UNCHANGED <<attempt, failure, observed>>
           \/ NextName(l, "planDirectory") /\ UNCHANGED here
           \/ /\ FailItem("restoreFailure", FALSE)
              /\ UNCHANGED <<attempt, here, tree>>

(* The no-follow bind and the identity check of the new directory.         *)
BindDirectory ==
    /\ At("bindDirectory")
    /\ \/ Goto("syncData") /\ UNCHANGED synced
       \/ Goto("journalReconciliation") /\ synced' = FALSE
    /\ UNCHANGED <<index, attempt, partial, sidecar, here, journalVars, tree,
                   reportVars, envVars>>

JournalReconciliation ==
    LET r == Rec("directoryReconciliationRequired", index, here, FALSE)
    IN  /\ At("journalReconciliation")
        /\ UNCHANGED <<itemVars, tree, results, manifest, announced, envVars>>
        /\ Appended(r) \/ \E e \in Errors : AppendFailed(r, e)
        /\ FailItem("needsReconciliation", TRUE)

-----------------------------------------------------------------------------
(* Both kinds: synchronize the parent, record the publication.             *)

SyncData ==
    /\ At("syncData")
    /\ \E ok \in BOOLEAN :
          SyncParent(Item.dir, ok) /\ synced' = (synced /\ ok)
    /\ Goto("journalPublished")
    /\ UNCHANGED <<index, attempt, partial, sidecar, here, journalVars,
                   reportVars, envVars>>

(* The disposition of a publication that was recorded.                     *)
PublishedAs ==
    CASE Item.kind = "file"                 -> "published"
      [] Item.kind # "file" /\ synced       -> "directoryCreated"
      [] Item.kind # "file" /\ ~synced      -> "directoryNeedsReconciliation"

JournalPublished ==
    LET r == Rec("itemPublished", index, here, synced)
    IN  /\ At("journalPublished")
        /\ UNCHANGED <<attempt, partial, sidecar, here, synced, tree, manifest,
                       announced, envVars>>
        /\ \/ /\ Appended(r)
              /\ results' = Append(results, [sidecar |-> sidecar, durable |-> synced])
              /\ observed' = [observed EXCEPT ![index] = PublishedAs]
              /\ index' = index + 1
              /\ Goto("itemStart")
              /\ UNCHANGED failure
           \/ /\ \E e \in Errors : AppendFailed(r, e)
              /\ UNCHANGED <<index, results>>
              /\ FailItem("needsReconciliation", Item.kind = "directory")

JournalItemFailure ==
    LET r == Rec(IF failure.error = "cancelled" THEN "itemCancelled"
                 ELSE "itemFailed", index, NoLocation, FALSE)
    IN  /\ At("journalItemFailure")
        /\ \/ Appended(r) /\ Goto("prepareManifest")
           \/ \E e \in Errors : AppendFailed(r, e) /\ Return(e)
        /\ UNCHANGED <<itemVars, tree, reportVars, envVars>>

-----------------------------------------------------------------------------
(* The manifest.                                                           *)

(* Bug: what the terminal item published is forgotten.                     *)
DispositionForgetsBug(i) ==
    CASE i <= Len(results) -> IF Plan[i].kind = "file" THEN "published"
                              ELSE "directoryCreated"
      [] i = index /\ i > Len(results) -> "failed"
      [] OTHER -> "notAttempted"

(* build_manifest_outcomes: the disposition of item i.                     *)
Disposition(i) ==
    CASE i <= Len(results) /\ Plan[i].kind = "file"     -> "published"
      [] i <= Len(results) /\ Plan[i].kind = "directory" ->
            IF results[i].durable THEN "directoryCreated"
            ELSE "directoryNeedsReconciliation"
      [] i > Len(results) /\ i = index                   ->
            IF failure.published THEN "directoryNeedsReconciliation"
            ELSE IF failure.error = "cancelled" THEN "cancelled" ELSE "failed"
      [] OTHER                                           -> "notAttempted"

(* The published_sidecar evidence of item i.                               *)
SidecarEvidence(i) ==
    CASE i <= Len(results)                -> results[i].sidecar
      [] i > Len(results) /\ i = index   -> failure.sidecar
      [] OTHER                            -> NoLocation

(* publish_final_manifest, from the frozen journal prefix to the return.   *)
PrepareManifest ==
    /\ At("prepareManifest")
    /\ \/ /\ manifest' = [prefix   |-> Len(journal),
                          outcomes |-> [i \in Items |-> Disposition(i)],
                          sidecars |-> [i \in Items |-> SidecarEvidence(i)]]
          /\ Goto("journalManifestPrepared")
       \/ Return("restoreFailure") /\ UNCHANGED manifest
    /\ UNCHANGED <<itemVars, journalVars, tree, results, failure, observed,
                   announced, envVars>>

JournalManifestPrepared ==
    LET r == Rec("manifestPrepared", 0, ManifestAt, FALSE)
    IN  /\ At("journalManifestPrepared")
        /\ \/ Appended(r) /\ Goto("linkManifest")
           \/ \E e \in Errors : AppendFailed(r, e) /\ Return(e)
        /\ UNCHANGED <<itemVars, tree, reportVars, envVars>>

LinkManifest ==
    /\ At("linkManifest")
    /\ \/ /\ Free(ManifestAt)
          /\ Place(ManifestAt, New("manifest", 0))
          /\ Goto("syncManifest")
       \/ Goto("journalLinkFailure") /\ UNCHANGED tree
       \/ Return("restoreFailure") /\ UNCHANGED tree
    /\ UNCHANGED <<itemVars, journalVars, reportVars, envVars>>

JournalLinkFailure ==
    LET r == Rec("jobFailed", 0, NoLocation, FALSE)
    IN  /\ At("journalLinkFailure")
        /\ \/ Appended(r) /\ Return("hardLinkPublication")
           \/ \E e \in Errors : AppendFailed(r, e) /\ Return("needsReconciliation")
        /\ UNCHANGED <<itemVars, tree, reportVars, envVars>>

SyncManifest ==
    /\ At("syncManifest")
    /\ \E ok \in BOOLEAN : SyncParent(Root, ok) /\ synced' = ok
    /\ Goto("journalManifestPublished")
    /\ UNCHANGED <<index, attempt, partial, sidecar, here, journalVars,
                   reportVars, envVars>>

JournalManifestPublished ==
    LET r == Rec("manifestPublished", 0, ManifestAt, synced)
    IN  /\ At("journalManifestPublished")
        /\ \/ Appended(r) /\ Goto("journalTerminal")
           \/ /\ \E e \in Errors : AppendFailed(r, e)
              /\ Return("needsReconciliation")
        /\ UNCHANGED <<itemVars, tree, reportVars, envVars>>

(* Bug: only the manifest's own durability counts.                         *)
AllDurableBug == synced

(* overall_status is CompletedDurable.                                     *)
AllDurable == /\ synced
              /\ \A n \in DOMAIN results : results[n].durable
              /\ failure.published => failure.durable

(* Bug: a last record that could not be appended is tried again.           *)
JournalTerminalRetryBug ==
    LET r == Rec(IF failure.error = "none" THEN "jobCompleted" ELSE "jobFailed",
                 0, NoLocation, failure.error = "none" /\ AllDurable)
    IN  /\ At("journalTerminal")
        /\ \/ /\ Appended(r)
              /\ announced' = TRUE
              /\ Return(IF failure.error = "none" THEN "ok" ELSE failure.error)
           \/ /\ \E e \in Errors : AppendFailed(r, e)
              /\ Goto("journalTerminal")
              /\ UNCHANGED announced
        /\ UNCHANGED <<itemVars, tree, results, failure, manifest, observed,
                       envVars>>

JournalTerminal ==
    LET r == Rec(CASE failure.error = "none"      -> "jobCompleted"
                   [] failure.error = "cancelled" -> "jobCancelled"
                   [] OTHER                       -> "jobFailed",
                 0, NoLocation, failure.error = "none" /\ AllDurable)
    IN  /\ At("journalTerminal")
        /\ \/ /\ Appended(r)
              /\ announced' = TRUE
              /\ Return(IF failure.error = "none" THEN "ok" ELSE failure.error)
           \/ /\ \E e \in Errors : AppendFailed(r, e)
              /\ Return("needsReconciliation")
              /\ UNCHANGED announced
        /\ UNCHANGED <<itemVars, tree, results, failure, manifest, observed,
                       envVars>>

-----------------------------------------------------------------------------
(* The surroundings.                                                       *)

RequestCancel ==
    /\ power = "on" /\ ~cancel
    /\ cancel' = TRUE
    /\ UNCHANGED <<pc, itemVars, journalVars, tree, reportVars, returned,
                   power, foreign>>

(* Another program takes a name in the job directory, bounded.             *)
ForeignCreate ==
    /\ power = "on" /\ pc # "createJob" /\ foreign < MaxForeign
    /\ \E l \in Locations, k \in {"foreignFile", "foreignDirectory"} :
          /\ Free(l)
          /\ l[1] # Root => tree[<<Root, l[1]>>].kind \in DirectoryKinds
          /\ Place(l, New(k, 0))
    /\ foreign' = foreign + 1
    /\ UNCHANGED <<pc, itemVars, journalVars, reportVars, returned, cancel,
                   power>>

(* The process dies.  Dying inside an append leaves the file as a failed   *)
(* append does, so that case is AppendFailed followed by Crash.            *)
Crash ==
    /\ power = "on" /\ power' = "killed"
    /\ UNCHANGED <<pc, itemVars, journalVars, tree, reportVars, returned,
                   cancel, foreign>>

(* The machine dies: entries whose parent was not synchronized since may   *)
(* be gone, and so may the record that was not synchronized.               *)
PowerLoss ==
    /\ power # "lost" /\ power' = "lost"
    /\ \E gone \in SUBSET {l \in Locations : ~Free(l) /\ ~tree[l].durable} :
          tree' = [l \in Locations |-> IF l \in gone THEN NoEntry ELSE tree[l]]
    /\ tail' \in {tail, Nothing}
    /\ UNCHANGED <<pc, itemVars, journal, poisoned, reportVars, returned,
                   cancel, foreign>>

ItemStep ==
    \/ ItemStart \/ OpenParents \/ Stream \/ JournalPrepared
    \/ LinkSidecar \/ SyncSidecar \/ JournalSidecar \/ LinkData
    \/ PlanDirectory \/ CreateDirectory \/ BindDirectory
    \/ JournalReconciliation \/ SyncData \/ JournalPublished
    \/ JournalItemFailure

ManifestStep ==
    \/ ItemsDone \/ PrepareManifest \/ JournalManifestPrepared \/ LinkManifest
    \/ JournalLinkFailure \/ SyncManifest \/ JournalManifestPublished
    \/ JournalTerminal

WorkerStep == CreateJob \/ JournalStarted \/ ItemStep \/ ManifestStep

Next == WorkerStep \/ RequestCancel \/ ForeignCreate \/ Crash \/ PowerLoss

Spec == Init /\ [][Next]_vars

(* The worker is a thread of its own and every system call returns.        *)
FairSpec == Spec /\ WF_vars(WorkerStep)

-----------------------------------------------------------------------------
(* Properties.                                                             *)

(* Every variable keeps its type.                                          *)
TypeOK ==
    /\ pc \in Phases
    /\ index \in 1 .. Len(Plan) + 1
    /\ attempt \in 0 .. MaxAttempts - 1
    /\ partial \in [Items -> BOOLEAN]
    /\ sidecar \in Locations \cup {NoLocation}
    /\ here \in Locations \cup {NoLocation}
    /\ synced \in BOOLEAN
    /\ journal \in Seq(Record) /\ tail \in Tails /\ poisoned \in BOOLEAN
    /\ tree \in [Locations -> Entry]
    /\ cancel \in BOOLEAN
    /\ results \in Seq([sidecar : Locations \cup {NoLocation},
                        durable : BOOLEAN])
    /\ failure \in [error : Errors \cup {"none"}, published : BOOLEAN,
                    durable : BOOLEAN, sidecar : Locations \cup {NoLocation}]
    /\ manifest \in {NoManifest} \cup
                    [prefix : Nat, outcomes : [Items -> Dispositions],
                     sidecars : [Items -> Locations \cup {NoLocation}]]
    /\ observed \in [Items -> Dispositions \cup {"pending", "started"}]
    /\ announced \in BOOLEAN
    /\ returned \in Errors \cup {"none", "ok"}
    /\ power \in {"on", "killed", "lost"}
    /\ foreign \in 0 .. MaxForeign

Logged(k, i)       == \E n \in DOMAIN journal : /\ journal[n].kind = k
                                                /\ journal[n].item = i
LoggedAt(k, i, l)  == \E n \in DOMAIN journal : /\ journal[n].kind = k
                                                /\ journal[n].item = i
                                                /\ journal[n].at = l
Shows(l, k, i)     == tree[l].kind = k /\ tree[l].owner = i
Visible(i)         == \E l \in Locations : /\ tree[l].owner = i
                                           /\ tree[l].kind \in {"data", "directory"}
ManifestLinked     == tree[ManifestAt].kind = "manifest"

(* What the journal must have announced before l can show what it shows.   *)
IsAnnounced(l) ==
    /\ tree[l].kind \in {"data", "sidecar"} =>
          Logged("itemPrepared", tree[l].owner)
    /\ tree[l].kind = "directory" =>
          LoggedAt("directoryPublicationPlanned", tree[l].owner, l)
    /\ tree[l].kind = "manifest" =>
          LoggedAt("manifestPrepared", 0, ManifestAt)

(* Write ahead.  Whatever the job leaves under a final name, also after a  *)
(* crash or a power loss, the synchronized journal had announced: a file   *)
(* or sidecar by itemPrepared, a directory by a plan of that very name.    *)
IntentIsDurable == \A l \in Locations : IsAnnounced(l)

(* A file with zero-filled ranges never appears without the sidecar that   *)
(* says so: the sidecar is journaled before the data has a name, and it is *)
(* still there unless a power loss took it and the journal had not claimed *)
(* it durable.                                                             *)
SidecarBeforeData ==
    \A l \in Locations :
       tree[l].kind = "data" /\ partial[tree[l].owner] =>
          \E n \in DOMAIN journal :
             /\ journal[n].kind = "itemSidecarPublished"
             /\ journal[n].item = tree[l].owner
             /\ \/ Shows(journal[n].at, "sidecar", tree[l].owner)
                \/ power = "lost" /\ ~journal[n].durable

(* The kind of entry a publication record speaks of.                       *)
EntryOf(r) == CASE r.kind = "itemSidecarPublished" -> "sidecar"
                [] r.kind = "manifestPublished"    -> "manifest"
                [] OTHER                           -> Plan[r.item].kind
Claims == {"itemSidecarPublished", "itemPublished", "manifestPublished"}
IsClaimed(r) ==
    LET kind == IF EntryOf(r) = "file" THEN "data" ELSE EntryOf(r)
    IN  Shows(r.at, kind, r.item)

(* A publication record is true: what it names is there, belongs to the    *)
(* item, and, if the record says its namespace was synchronized, survives  *)
(* a power loss at any later moment.                                       *)
ClaimsAreTrue ==
    \A n \in DOMAIN journal :
       journal[n].kind \in Claims =>
          \/ IsClaimed(journal[n])
          \/ power = "lost" /\ ~journal[n].durable

(* What a reader of the journal prefix the manifest is bound to (its       *)
(* outcomes_prefix_sha256) concludes for item i.                           *)
InPrefix(k, i) == \E n \in 1 .. manifest.prefix : /\ journal[n].kind = k
                                                  /\ journal[n].item = i
DurableInPrefix(i) ==
    \E n \in 1 .. manifest.prefix :
       /\ journal[n].kind = "itemPublished" /\ journal[n].item = i
       /\ journal[n].durable
OutcomeInPrefix(i) ==
    IF InPrefix("itemFailed", i) THEN "failed"
    ELSE IF InPrefix("itemCancelled", i) THEN "cancelled"
    ELSE IF InPrefix("directoryReconciliationRequired", i)
    THEN "directoryNeedsReconciliation"
    ELSE IF ~InPrefix("itemPublished", i) THEN "notAttempted"
    ELSE IF Plan[i].kind = "file" THEN "published"
    ELSE IF DurableInPrefix(i) THEN "directoryCreated"
    ELSE "directoryNeedsReconciliation"

(* The manifest, the journal and the directory tell one story.  A linked   *)
(* manifest and the journal prefix it is bound to name the same            *)
(* disposition for every item of the plan; what the manifest calls failed, *)
(* cancelled or not attempted has no final name, what it calls published   *)
(* has one (unless a power loss took it); and it names every sidecar that  *)
(* was linked, also that of an item that failed later.                     *)
ManifestIsTrue ==
    ManifestLinked =>
       /\ \A i \in Items :
             /\ manifest.outcomes[i] = OutcomeInPrefix(i)
             /\ IF manifest.outcomes[i] \in {"failed", "cancelled", "notAttempted"}
                THEN ~Visible(i)
                ELSE Visible(i) \/ power = "lost"
       /\ \A l \in Locations :
             tree[l].kind = "sidecar" => manifest.sidecars[tree[l].owner] = l

(* What the user is told of an item that did not succeed is true of the    *)
(* disk.  Cancellation never interrupts between a link and its record, so  *)
(* a cancelled item has left nothing under a final name, not even a        *)
(* sidecar; and once its create_dir succeeded a directory is never         *)
(* reported as plainly failed, neither to the observer nor in the journal. *)
ReportsMatchTree ==
    \A l \in Locations :
       LET i == tree[l].owner
       IN  /\ tree[l].kind # "none" /\ i \in Items => observed[i] # "cancelled"
           /\ tree[l].kind = "directory" =>
                 observed[i] # "failed" /\ ~Logged("itemFailed", i)

(* Success means everything: every item visible and the manifest linked    *)
(* before the call returned Ok, and the observer heard of each; and a job  *)
(* recorded as completed and durable keeps all of it through a power loss. *)
AllVisible == ManifestLinked /\ \A i \in Items : Visible(i)
SuccessIsComplete ==
    /\ returned = "ok" =>
          /\ announced
          /\ power # "lost" => AllVisible
          /\ \A i \in Items : observed[i] \in {"published", "directoryCreated",
                                               "directoryNeedsReconciliation"}
    /\ \A n \in DOMAIN journal :
          journal[n].kind = "jobCompleted" /\ journal[n].durable => AllVisible

(* After a failed journal write nothing is published and no record added.  *)
PoisonStopsPublication ==
    [][poisoned => /\ journal' = journal
                   /\ \A l \in Locations : tree'[l].kind \in
                         {tree[l].kind, "none", "foreignFile",
                          "foreignDirectory"}]_vars

(* Every restore call returns unless the process or the machine dies.      *)
EveryJobReturns == <>(returned # "none" \/ power # "on")

(* ADR-0027: a journal failure after a link "returns an explicit           *)
(* reconciliation-needed result".                                          *)
UnrecordedLinkNeedsReconciliation ==
    returned # "none" /\ power = "on" =>
       \A l \in Locations :
          tree[l].kind = "data" /\ ~Logged("itemPublished", tree[l].owner) =>
             returned = "needsReconciliation"

-----------------------------------------------------------------------------
(* The refinement.                                                         *)

Settled(i) == \/ Logged("itemPublished", i)
              \/ Logged("directoryReconciliationRequired", i)

Promise == INSTANCE PublicationPromise WITH
    intended <- {i \in Items : Logged("itemPrepared", i)},
    shown    <- {i \in Items : Visible(i)},
    vouched  <- {i \in Items : Settled(i)},
    sealed   <- ManifestLinked,
    answer   <- IF returned \in {"none", "ok"} THEN returned ELSE "error",
    intact   <- power # "lost"

(* The engine keeps the promise: each of its steps is a step of            *)
(* PublicationPromise or changes nothing there.                            *)
KeepsPromise == Promise!Spec

FinishedAs(kinds) == {i \in Items : observed[i] \in kinds}

Reports == [open      |-> FinishedAs({"started"}) # {},
            done      |-> Cardinality(FinishedAs({"published", "directoryCreated",
                                         "directoryNeedsReconciliation"})),
            bad       |-> IF failure.error = "none" THEN "none"
                          ELSE IF failure.published THEN "reconcile"
                          ELSE IF failure.error = "cancelled" THEN "cancelled"
                          ELSE "failed",
            announced |-> announced,
            answer    |-> CASE returned \in {"none", "ok", "cancelled"} -> returned
                            [] OTHER -> "error"]

After(e) == EngineStep(e, Len(Plan), cancel)

(* What the coordinator is told follows EngineReports: a step of the       *)
(* engine reports nothing, one event, or the start and the cancellation of *)
(* an item together.                                                       *)
ReportsInOrder ==
    [][Reports' \in {Reports} \cup After(Reports)
                       \cup UNION {After(e) : e \in After(Reports)}]_vars
=============================================================================
