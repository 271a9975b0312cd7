---------------------- MODULE RestoreTransactionProofs ----------------------
(***************************************************************************)
(* Machine-checked proofs about RestoreTransaction, for every plan, every  *)
(* set of names and every bound.                                           *)
(***************************************************************************)
EXTENDS RestoreTransaction, FiniteSetTheorems, SequenceTheorems, TLAPS

(* The phases in which index is the number of an item of the plan.         *)
ItemPhases == {"openParents", "stream", "journalPrepared", "linkSidecar",
               "syncSidecar", "journalSidecar", "linkData", "planDirectory",
               "createDirectory", "bindDirectory", "journalReconciliation",
               "syncData", "journalPublished", "journalItemFailure"}

(* TypeOK is not inductive alone: index + 1 stays in range because the     *)
(* phases of an item are entered with an item of the plan.                 *)
TypeInv == TypeOK /\ (pc \in ItemPhases => index \in Items)

USE NamesAssumption, PlanAssumption, BoundsAssumption, CollisionAssumption

-----------------------------------------------------------------------------
(* Lemmas on the pieces of the actions.                                    *)

LEMMA ItemType ==
    ASSUME index \in Items
    PROVE  Item \in PlanItem /\ Len(Plan) \in Nat
  BY DEF Items, Item

LEMMA CandidateType ==
    ASSUME index \in Items, attempt \in 0 .. MaxAttempts - 1,
           NEW b \in Names
    PROVE  Candidate(b) \in Locations
  <1>1. Item.dir \in Directories
    BY ItemType DEF PlanItem
  <1>2. CollisionName[b, attempt] \in Names
    OBVIOUS
  <1> QED BY <1>1, <1>2 DEF Candidate, Locations

LEMMA RecType ==
    ASSUME NEW k \in RecordKinds, NEW i \in 0 .. Len(Plan),
           NEW l \in Locations \cup {NoLocation}, NEW d \in BOOLEAN
    PROVE  Rec(k, i, l, d) \in Record
  BY DEF Rec, Record

(* TypeInv in five parts, one per group of variables.                      *)
JournalType == journal \in Seq(Record) /\ tail \in Tails /\ poisoned \in BOOLEAN

TreeType == tree \in [Locations -> Entry]

ItemVarsType ==
    /\ index \in 1 .. Len(Plan) + 1
    /\ attempt \in 0 .. MaxAttempts - 1
    /\ partial \in [Items -> BOOLEAN]
    /\ sidecar \in Locations \cup {NoLocation}
    /\ here \in Locations \cup {NoLocation}
    /\ synced \in BOOLEAN

ReportType ==
    /\ failure \in [error : Errors \cup {"none"}, published : BOOLEAN,
                    durable : BOOLEAN, sidecar : Locations \cup {NoLocation}]
    /\ observed \in [Items -> Dispositions \cup {"pending", "started"}]
    /\ returned \in Errors \cup {"none", "ok"}
    /\ pc \in Phases
    /\ pc \in ItemPhases => index \in Items

ResultsType ==
    results \in Seq([sidecar : Locations \cup {NoLocation}, durable : BOOLEAN])

OtherType ==
    /\ manifest \in {NoManifest} \cup
                    [prefix : Nat, outcomes : [Items -> Dispositions],
                     sidecars : [Items -> Locations \cup {NoLocation}]]
    /\ announced \in BOOLEAN
    /\ cancel \in BOOLEAN
    /\ power \in {"on", "killed", "lost"}
    /\ foreign \in 0 .. MaxForeign

LEMMA TypeSplit ==
    TypeInv <=> /\ JournalType /\ TreeType /\ ItemVarsType
                /\ ReportType /\ ResultsType /\ OtherType
  BY DEF TypeInv, TypeOK, JournalType, TreeType, ItemVarsType, ReportType,
         ResultsType, OtherType

LEMMA TypeSplitPrime ==
    TypeInv' <=> /\ JournalType' /\ TreeType' /\ ItemVarsType'
                 /\ ReportType' /\ ResultsType' /\ OtherType'
  BY TypeSplit, PTL

LEMMA PlanLength == Len(Plan) \in Nat \ {0}
  OBVIOUS

LEMMA AppendedType ==
    ASSUME JournalType, NEW r \in Record, Appended(r)
    PROVE  JournalType'
  BY DEF JournalType, Appended

LEMMA AppendFailedType ==
    ASSUME JournalType, NEW r \in Record, NEW e, AppendFailed(r, e)
    PROVE  JournalType'
  BY DEF JournalType, AppendFailed, Tails, journalVars

LEMMA SyncParentType ==
    ASSUME TreeType, NEW d, NEW ok \in BOOLEAN, SyncParent(d, ok)
    PROVE  TreeType'
  BY DEF TreeType, SyncParent, Entry

LEMMA PlaceType ==
    ASSUME TreeType, NEW l, NEW k \in EntryKinds, NEW i \in 0 .. Len(Plan),
           Place(l, New(k, i))
    PROVE  TreeType'
  BY DEF TreeType, Place, New, Entry

LEMMA FailItemType ==
    ASSUME ReportType, index \in Items, index' = index, poisoned' \in BOOLEAN,
           synced' \in BOOLEAN, sidecar' \in Locations \cup {NoLocation},
           NEW e \in Errors, NEW p \in BOOLEAN, FailItem(e, p)
    PROVE  ReportType'
<1>1. CASE poisoned'
  BY <1>1 DEF ReportType, FailItem, Return, Goto, Phases, ItemPhases
<1>2. CASE ~poisoned'
  <2>1. PICK o \in Dispositions :
           o = IF p THEN "directoryNeedsReconciliation"
               ELSE IF e = "cancelled" THEN "cancelled" ELSE "failed"
    BY DEF Dispositions
  <2>2. /\ observed' = [observed EXCEPT ![index] = o]
        /\ failure' = [error |-> e, published |-> p,
                       durable |-> synced', sidecar |-> sidecar']
        /\ Goto(IF p THEN "prepareManifest" ELSE "journalItemFailure")
    BY <1>2, <2>1 DEF FailItem
  <2> QED
    BY <2>2 DEF ReportType, Goto, Phases, ItemPhases, Dispositions
<1> QED
  BY <1>1, <1>2

(* A step that moves to a phase, or returns, and reports nothing.          *)
LEMMA MoveType ==
    ASSUME ReportType, UNCHANGED <<failure, observed>>, index' = index,
           \/ \E p \in Phases : Goto(p) /\ (p \in ItemPhases => index \in Items)
           \/ \E e \in Errors \cup {"ok"} : Return(e)
    PROVE  ReportType'
  BY DEF ReportType, Goto, Return, Phases, ItemPhases

LEMMA KeptType ==
    ASSUME TypeInv
    PROVE  /\ UNCHANGED journalVars => JournalType'
           /\ UNCHANGED tree => TreeType'
           /\ UNCHANGED itemVars => ItemVarsType'
           /\ UNCHANGED results => ResultsType'
           /\ UNCHANGED <<manifest, announced, envVars>> => OtherType'
  BY TypeSplit DEF JournalType, TreeType, ItemVarsType, ResultsType, OtherType,
     journalVars, itemVars, envVars

-----------------------------------------------------------------------------
(* Type correctness.                                                       *)

LEMMA TypeInit == Init => TypeInv
  <1> SUFFICES ASSUME Init PROVE TypeInv
    OBVIOUS
  <1>1. JournalType
    <2>1. journal = <<>> /\ poisoned = FALSE
      BY DEF Init
    <2>2. journal \in Seq(Record)
      BY <2>1
    <2>3. poisoned \in BOOLEAN
      BY <2>1
    <2>4. tail \in Tails
      BY DEF Init, Tails
    <2> QED BY <2>2, <2>3, <2>4 DEF JournalType
  <1>2. TreeType
    BY PlanLength DEF Init, TreeType, Entry, NoEntry, EntryKinds
  <1>3. ItemVarsType
    BY PlanLength DEF Init, ItemVarsType
  <1>4. ReportType
    BY DEF Init, ReportType, NoFailure, Phases, ItemPhases
  <1>5. ResultsType
    BY DEF Init, ResultsType
  <1>6. OtherType
    <2>1. foreign = 0 /\ announced = FALSE /\ cancel = FALSE /\ power = "on"
          /\ manifest = NoManifest
      BY DEF Init
    <2>2. foreign \in 0 .. MaxForeign
      BY <2>1
    <2>3. announced \in BOOLEAN /\ cancel \in BOOLEAN
      BY <2>1
    <2>4. power \in {"on", "killed", "lost"}
      BY <2>1
    <2> QED BY <2>1, <2>2, <2>3, <2>4 DEF OtherType
  <1> QED BY <1>1, <1>2, <1>3, <1>4, <1>5, <1>6, TypeSplit

(* One lemma per group of actions.                                         *)
LEMMA TypeJobSteps ==
    ASSUME TypeInv, CreateJob \/ JournalStarted \/ ItemsDone
    PROVE  TypeInv'
  <1>1. ItemVarsType' /\ TreeType' /\ ResultsType' /\ OtherType'
    BY KeptType DEF CreateJob, JournalStarted, ItemsDone, reportVars
  <1>2. JournalType'
    <2>1. Rec("jobStarted", 0, NoLocation, FALSE) \in Record
      <3>1. "jobStarted" \in RecordKinds /\ 0 \in 0 .. Len(Plan)
        BY PlanLength DEF RecordKinds
      <3> QED BY <3>1, RecType
    <2> QED BY <2>1, KeptType, AppendedType, AppendFailedType, TypeSplit
            DEF CreateJob, JournalStarted, ItemsDone
  <1>3. ReportType'
    <2>1. ReportType BY TypeSplit
    <2>2. CASE CreateJob
      BY <2>1, <2>2, MoveType DEF CreateJob, reportVars, itemVars, Phases, ItemPhases, Errors
    <2>3. CASE JournalStarted
      BY <2>1, <2>3, MoveType DEF JournalStarted, reportVars, itemVars, Phases, ItemPhases
    <2>4. CASE ItemsDone
      BY <2>1, <2>4, MoveType DEF ItemsDone, reportVars, itemVars, Phases, ItemPhases
    <2> QED BY <2>2, <2>3, <2>4
  <1> QED BY <1>1, <1>2, <1>3, TypeSplitPrime

LEMMA TypeItemStart ==
    ASSUME TypeInv, ItemStart
    PROVE  TypeInv'
  <1>1. JournalType' /\ TreeType' /\ ResultsType' /\ OtherType'
    BY KeptType DEF ItemStart
  <1>2. ItemVarsType'
    BY TypeSplit DEF ItemStart, ItemVarsType
  <1>3. ReportType'
    <2>1. index \in Items
      BY TypeSplit, PlanLength DEF ItemStart, ItemVarsType, Items
    <2> QED BY <2>1, TypeSplit DEF ItemStart, ReportType, Goto, NoFailure,
            Errors, Phases, ItemPhases, Dispositions
  <1> QED BY <1>1, <1>2, <1>3, TypeSplitPrime

LEMMA TypeOpenParents ==
    ASSUME TypeInv, OpenParents
    PROVE  TypeInv'
  <1>1. JournalType' /\ ItemVarsType' /\ ResultsType' /\ OtherType'
    BY KeptType DEF OpenParents
  <1>2. TreeType'
    <2>1. "parent" \in EntryKinds /\ 0 \in 0 .. Len(Plan)
      BY PlanLength DEF EntryKinds
    <2>2. TreeType /\ (UNCHANGED tree => TreeType')
      BY TypeSplit, KeptType
    <2> QED BY <2>1, <2>2, PlaceType DEF OpenParents
  <1>3. ReportType'
    <2>1. ReportType /\ index \in Items /\ index' = index
      BY TypeSplit DEF OpenParents, At, ReportType, ItemPhases, itemVars
    <2>2. poisoned' \in BOOLEAN /\ synced' \in BOOLEAN
          /\ sidecar' \in Locations \cup {NoLocation}
      BY <1>1 DEF JournalType, ItemVarsType
    <2>3. CASE FailItem("restoreFailure", FALSE)
      BY <2>1, <2>2, <2>3, FailItemType DEF Errors
    <2>4. CASE \E p \in Phases : Goto(p) /\ UNCHANGED <<failure, observed>>
      BY <2>1, <2>4, MoveType
    <2> QED BY <2>3, <2>4 DEF OpenParents, Phases
  <1> QED BY <1>1, <1>2, <1>3, TypeSplitPrime

LEMMA TypeStream ==
    ASSUME TypeInv, Stream
    PROVE  TypeInv'
  <1>1. JournalType' /\ TreeType' /\ ResultsType' /\ OtherType'
    BY KeptType DEF Stream
  <1>0. index \in Items
    BY TypeSplit DEF Stream, At, ReportType, ItemPhases
  <1>2. ItemVarsType'
    <2>1. Item.bestEffort \in BOOLEAN
      BY <1>0, ItemType DEF PlanItem
    <2> QED BY <2>1, TypeSplit DEF Stream, ItemVarsType
  <1>3. ReportType'
    <2>1. ReportType /\ index' = index
      BY TypeSplit DEF Stream
    <2>2. poisoned' \in BOOLEAN /\ synced' \in BOOLEAN
          /\ sidecar' \in Locations \cup {NoLocation}
      BY <1>1, <1>2 DEF JournalType, ItemVarsType
    <2>3. CASE \E e \in Errors : FailItem(e, FALSE)
      BY <1>0, <2>1, <2>2, <2>3, FailItemType
    <2>4. CASE Goto("journalPrepared") /\ UNCHANGED <<failure, observed>>
      BY <1>0, <2>1, <2>4, MoveType DEF Phases
    <2> QED BY <2>3, <2>4 DEF Stream, Errors
  <1> QED BY <1>1, <1>2, <1>3, TypeSplitPrime

(* The last thing a step of an item does: go on, or fail the item.         *)
LEMMA ReportStepType ==
    ASSUME ReportType, JournalType', ItemVarsType', index \in Items,
           index' = index,
           \/ \E p \in Phases : Goto(p) /\ UNCHANGED <<failure, observed>>
           \/ \E e \in Errors, b \in BOOLEAN : FailItem(e, b)
    PROVE  ReportType'
  <1>1. poisoned' \in BOOLEAN /\ synced' \in BOOLEAN
        /\ sidecar' \in Locations \cup {NoLocation}
    BY DEF JournalType, ItemVarsType
  <1> QED BY <1>1, FailItemType, MoveType

LEMMA NextNameType ==
    ASSUME attempt \in 0 .. MaxAttempts - 1, NEW l, NEW p \in Phases,
           NextName(l, p)
    PROVE  /\ attempt' \in 0 .. MaxAttempts - 1
           /\ UNCHANGED tree
           /\ \/ Goto(p) /\ UNCHANGED <<failure, observed>>
              \/ FailItem("collisionLimit", FALSE)
  <1>1. attempt' = attempt \/ (attempt + 1 < MaxAttempts /\ attempt' = attempt + 1)
    BY DEF NextName
  <1>2. attempt' \in 0 .. MaxAttempts - 1
    BY <1>1
  <1>3. /\ UNCHANGED tree
        /\ \/ Goto(p) /\ UNCHANGED <<failure, observed>>
           \/ FailItem("collisionLimit", FALSE)
    BY Zenon DEF NextName
  <1> QED BY <1>2, <1>3

(* In the phases of an item the facts on its data hold.                    *)
LEMMA InItem ==
    ASSUME TypeInv, pc \in ItemPhases
    PROVE  /\ index \in Items /\ index \in 0 .. Len(Plan)
           /\ attempt \in 0 .. MaxAttempts - 1
           /\ synced \in BOOLEAN
           /\ sidecar \in Locations \cup {NoLocation}
           /\ here \in Locations \cup {NoLocation}
           /\ Candidate(Item.base) \in Locations
           /\ Candidate(Item.sidecar) \in Locations
  <1>1. index \in Items
    BY TypeSplit DEF ReportType
  <1>2. ItemVarsType
    BY TypeSplit
  <1>3. Item.base \in Names /\ Item.sidecar \in Names
    BY <1>1, ItemType DEF PlanItem
  <1>4. attempt \in 0 .. MaxAttempts - 1
    BY <1>2 DEF ItemVarsType
  <1> QED BY <1>1, <1>2, <1>3, <1>4, CandidateType, PlanLength
          DEF ItemVarsType, Items

(* The steps that append a record and leave the item's variables alone.    *)
LEMMA TypeJournalSteps ==
    ASSUME TypeInv, JournalPrepared \/ PlanDirectory \/ JournalReconciliation
    PROVE  TypeInv'
  <1>0. pc \in ItemPhases
    BY DEF JournalPrepared, PlanDirectory, JournalReconciliation, At, ItemPhases
  <1>1. ItemVarsType' /\ TreeType' /\ ResultsType' /\ OtherType'
    BY KeptType DEF JournalPrepared, PlanDirectory, JournalReconciliation
  <1>2. JournalType'
    <2>1. \A k \in RecordKinds, l \in Locations \cup {NoLocation} :
             Rec(k, index, l, FALSE) \in Record
      BY <1>0, InItem, RecType
    <2>2. {"itemPrepared", "directoryPublicationPlanned",
           "directoryReconciliationRequired"} \subseteq RecordKinds
      BY DEF RecordKinds
    <2>3. JournalType
      BY TypeSplit
    <2>4. CASE JournalPrepared
      BY <2>1, <2>2, <2>3, <2>4, AppendedType, AppendFailedType
         DEF JournalPrepared
    <2>5. CASE PlanDirectory
      BY <1>0, <2>1, <2>2, <2>3, <2>5, InItem, AppendedType, AppendFailedType
         DEF PlanDirectory
    <2>6. CASE JournalReconciliation
      BY <1>0, <2>1, <2>2, <2>3, <2>6, InItem, AppendedType, AppendFailedType
         DEF JournalReconciliation
    <2> QED BY <2>4, <2>5, <2>6
  <1>3. ReportType'
    <2>1. ReportType /\ index \in Items
      BY <1>0, InItem, TypeSplit
    <2>2. index' = index
      BY DEF JournalPrepared, PlanDirectory, JournalReconciliation, itemVars
    <2>3. \/ \E p \in Phases : Goto(p) /\ UNCHANGED <<failure, observed>>
          \/ \E e \in Errors, b \in BOOLEAN : FailItem(e, b)
      <3>1. CASE JournalPrepared
        BY <3>1 DEF JournalPrepared, Phases
      <3>2. CASE PlanDirectory
        BY <3>2 DEF PlanDirectory, Phases
      <3>3. CASE JournalReconciliation
        BY <3>3 DEF JournalReconciliation, Errors
      <3> QED BY <3>1, <3>2, <3>3
    <2> QED BY <1>1, <1>2, <2>1, <2>2, <2>3, ReportStepType
  <1> QED BY <1>1, <1>2, <1>3, TypeSplitPrime

(* The links and the creation of a directory.                              *)
LEMMA TypeLinkSteps ==
    ASSUME TypeInv, LinkSidecar \/ LinkData \/ CreateDirectory
    PROVE  TypeInv'
  <1>0. pc \in ItemPhases
    BY DEF LinkSidecar, LinkData, CreateDirectory, At, ItemPhases
  <1>a. /\ index \in Items /\ index \in 0 .. Len(Plan)
        /\ Candidate(Item.base) \in Locations
        /\ Candidate(Item.sidecar) \in Locations
        /\ attempt \in 0 .. MaxAttempts - 1
    BY <1>0, InItem
  <1>b. {"linkSidecar", "syncSidecar", "linkData", "syncData", "planDirectory",
         "bindDirectory"} \subseteq Phases
        /\ {"sidecar", "data", "directory"} \subseteq EntryKinds
        /\ {"collisionLimit", "hardLinkPublication", "restoreFailure"}
              \subseteq Errors
    BY DEF Phases, EntryKinds, Errors
  <1>c. TreeType /\ ItemVarsType /\ ReportType
    BY TypeSplit
  <1>1. JournalType' /\ ResultsType' /\ OtherType'
    BY KeptType DEF LinkSidecar, LinkData, CreateDirectory
  <1>2. /\ index' = index /\ attempt' \in 0 .. MaxAttempts - 1
        /\ UNCHANGED tree \/ \E l \in Locations, k \in EntryKinds : Place(l, New(k, index))
        /\ \/ \E p \in Phases : Goto(p) /\ UNCHANGED <<failure, observed>>
           \/ \E e \in Errors, b \in BOOLEAN : FailItem(e, b)
    <2>1. /\ index' = index
          /\ \/ \E l \in Locations, k \in EntryKinds, p \in Phases :
                   /\ Place(l, New(k, index)) /\ Goto(p)
                   /\ UNCHANGED <<attempt, failure, observed>>
             \/ \E l \in Locations, p \in Phases : NextName(l, p)
             \/ \E e \in Errors :
                   FailItem(e, FALSE) /\ UNCHANGED <<attempt, tree>>
      <3>1. CASE LinkSidecar
        <4>1. CASE /\ Place(Candidate(Item.sidecar), New("sidecar", index))
                   /\ Goto("syncSidecar") /\ UNCHANGED <<attempt, failure, observed>>
          BY <3>1, <4>1, <1>a, <1>b DEF LinkSidecar
        <4>2. CASE NextName(Candidate(Item.sidecar), "linkSidecar")
          BY <3>1, <4>2, <1>a, <1>b DEF LinkSidecar
        <4>3. CASE FailItem("hardLinkPublication", FALSE) /\ UNCHANGED <<attempt, tree>>
          BY <3>1, <4>3, <1>b DEF LinkSidecar
        <4> QED BY <3>1, <4>1, <4>2, <4>3, Zenon DEF LinkSidecar
      <3>2. CASE LinkData
        <4>1. CASE /\ Place(Candidate(Item.base), New("data", index))
                   /\ Goto("syncData") /\ UNCHANGED <<attempt, failure, observed>>
          BY <3>2, <4>1, <1>a, <1>b DEF LinkData
        <4>2. CASE NextName(Candidate(Item.base), "linkData")
          BY <3>2, <4>2, <1>a, <1>b DEF LinkData
        <4>3. CASE FailItem("hardLinkPublication", FALSE) /\ UNCHANGED <<attempt, tree>>
          BY <3>2, <4>3, <1>b DEF LinkData
        <4> QED BY <3>2, <4>1, <4>2, <4>3, Zenon DEF LinkData
      <3>3. CASE CreateDirectory
        <4>1. CASE /\ Place(Candidate(Item.base), New("directory", index))
                   /\ Goto("bindDirectory") /\ UNCHANGED <<attempt, failure, observed>>
          BY <3>3, <4>1, <1>a, <1>b DEF CreateDirectory
        <4>2. CASE NextName(Candidate(Item.base), "planDirectory")
          BY <3>3, <4>2, <1>a, <1>b DEF CreateDirectory
        <4>3. CASE FailItem("restoreFailure", FALSE) /\ UNCHANGED <<attempt, tree>>
          BY <3>3, <4>3, <1>b DEF CreateDirectory
        <4> QED BY <3>3, <4>1, <4>2, <4>3, Zenon DEF CreateDirectory
      <3> QED BY <3>1, <3>2, <3>3
    <2>2. CASE \E l \in Locations, k \in EntryKinds, p \in Phases :
                  /\ Place(l, New(k, index)) /\ Goto(p)
                  /\ UNCHANGED <<attempt, failure, observed>>
      BY <2>1, <2>2, <1>a
    <2>3. CASE \E l \in Locations, p \in Phases : NextName(l, p)
      BY <2>1, <2>3, <1>a, <1>b, NextNameType
    <2>4. CASE \E e \in Errors : FailItem(e, FALSE) /\ UNCHANGED <<attempt, tree>>
      BY <2>1, <2>4, <1>a
    <2> QED BY <2>1, <2>2, <2>3, <2>4
  <1>3. TreeType'
    <2>1. CASE UNCHANGED tree
      BY <2>1, KeptType
    <2>2. CASE \E l \in Locations, k \in EntryKinds : Place(l, New(k, index))
      BY <2>2, <1>a, <1>c, PlaceType
    <2> QED BY <1>2, <2>1, <2>2
  <1>4. sidecar' \in Locations \cup {NoLocation}
        /\ here' \in Locations \cup {NoLocation}
        /\ UNCHANGED <<partial, synced>>
    BY <1>a, <1>c DEF LinkSidecar, LinkData, CreateDirectory, ItemVarsType
  <1>5. ItemVarsType'
    BY <1>2, <1>4, <1>c DEF ItemVarsType
  <1>6. ReportType'
    BY <1>1, <1>2, <1>5, <1>a, <1>c, ReportStepType
  <1> QED BY <1>1, <1>3, <1>5, <1>6, TypeSplitPrime

(* The synchronizations of a parent, and the binding of a directory.       *)
LEMMA TypeSyncSteps ==
    ASSUME TypeInv, SyncSidecar \/ SyncData \/ BindDirectory \/ SyncManifest
    PROVE  TypeInv'
  <1>a. TreeType /\ ItemVarsType /\ ReportType
    BY TypeSplit
  <1>1. JournalType' /\ ResultsType' /\ OtherType'
    BY KeptType DEF SyncSidecar, SyncData, BindDirectory, SyncManifest, reportVars
  <1>2. TreeType'
    BY <1>a, KeptType, SyncParentType
       DEF SyncSidecar, SyncData, BindDirectory, SyncManifest
  <1>3. ItemVarsType'
    BY <1>a DEF SyncSidecar, SyncData, BindDirectory, SyncManifest, ItemVarsType
  <1>4. ReportType'
    <2>1. pc \in ItemPhases \/ SyncManifest
      BY DEF SyncSidecar, SyncData, BindDirectory, At, ItemPhases
    <2>2. index' = index /\ UNCHANGED <<failure, observed>>
      BY DEF SyncSidecar, SyncData, BindDirectory, SyncManifest, reportVars
    <2>3. CASE SyncManifest
      BY <2>2, <2>3, <1>a, MoveType DEF SyncManifest, Phases, ItemPhases
    <2>4. CASE pc \in ItemPhases
      <3>1. \E p \in Phases : Goto(p)
        BY DEF SyncSidecar, SyncData, BindDirectory, SyncManifest, Phases
      <3> QED BY <2>2, <2>4, <3>1, <1>a, InItem, MoveType
    <2> QED BY <2>1, <2>3, <2>4
  <1> QED BY <1>1, <1>2, <1>3, <1>4, TypeSplitPrime

(* The records of what was published.                                      *)
LEMMA TypeJournalSidecar ==
    ASSUME TypeInv, JournalSidecar
    PROVE  TypeInv'
  <1>0. pc \in ItemPhases
    BY DEF JournalSidecar, At, ItemPhases
  <1>1. TreeType' /\ ResultsType' /\ OtherType'
    BY KeptType DEF JournalSidecar
  <1>2. JournalType'
    <2>1. "itemSidecarPublished" \in RecordKinds
      BY DEF RecordKinds
    <2>2. Rec("itemSidecarPublished", index, sidecar, synced) \in Record
      BY <1>0, <2>1, InItem, RecType
    <2> QED BY <2>2, TypeSplit, AppendedType, AppendFailedType DEF JournalSidecar
  <1>3. ItemVarsType'
    <2>1. attempt' = 0 \/ UNCHANGED attempt
      BY DEF JournalSidecar
    <2> QED BY <2>1, TypeSplit DEF JournalSidecar, ItemVarsType
  <1>4. ReportType'
    <2>1. \/ \E p \in Phases : Goto(p) /\ UNCHANGED <<failure, observed>>
          \/ \E e \in Errors, b \in BOOLEAN : FailItem(e, b)
      BY DEF JournalSidecar, Phases, Errors
    <2>2. index' = index
      BY DEF JournalSidecar
    <2> QED BY <1>0, <1>2, <1>3, <2>1, <2>2, InItem, TypeSplit, ReportStepType
  <1> QED BY <1>1, <1>2, <1>3, <1>4, TypeSplitPrime

LEMMA TypeJournalPublished ==
    ASSUME TypeInv, JournalPublished
    PROVE  TypeInv'
  <1>0. pc \in ItemPhases
    BY DEF JournalPublished, At, ItemPhases
  <1>a. index \in Items /\ Item \in PlanItem
    BY <1>0, InItem, ItemType
  <1>1. TreeType' /\ OtherType'
    BY KeptType DEF JournalPublished
  <1>2. JournalType'
    <2>1. "itemPublished" \in RecordKinds
      BY DEF RecordKinds
    <2>2. Rec("itemPublished", index, here, synced) \in Record
      BY <1>0, <2>1, InItem, RecType
    <2> QED BY <2>2, TypeSplit, AppendedType, AppendFailedType DEF JournalPublished
  <1>3. ItemVarsType'
    <2>1. index' = index + 1 \/ UNCHANGED index
      BY DEF JournalPublished
    <2>2. index' \in 1 .. Len(Plan) + 1
      BY <2>1, <1>a, PlanLength DEF Items
    <2> QED BY <2>2, TypeSplit DEF JournalPublished, ItemVarsType
  <1>4. ResultsType'
    <2>1. UNCHANGED results
          \/ results' = Append(results, [sidecar |-> sidecar, durable |-> synced])
      BY DEF JournalPublished
    <2>2. [sidecar |-> sidecar, durable |-> synced] \in
             [sidecar : Locations \cup {NoLocation}, durable : BOOLEAN]
      BY <1>0, InItem
    <2>3. results \in Seq([sidecar : Locations \cup {NoLocation},
                           durable : BOOLEAN])
      BY TypeSplit DEF ResultsType
    <2>4. CASE UNCHANGED results
      BY <2>3, <2>4 DEF ResultsType
    <2>5. CASE results' = Append(results, [sidecar |-> sidecar, durable |-> synced])
      BY <2>2, <2>3, <2>5 DEF ResultsType
    <2> QED BY <2>1, <2>4, <2>5
  <1>5. ReportType'
    <2>1. CASE UNCHANGED <<index, results>> /\ FailItem("needsReconciliation",
               Item.kind = "directory")
      <3>1. "needsReconciliation" \in Errors /\ (Item.kind = "directory") \in BOOLEAN
        BY DEF Errors
      <3> QED BY <1>a, <1>2, <1>3, <2>1, <3>1, TypeSplit, ReportStepType
    <2>2. CASE /\ Goto("itemStart") /\ UNCHANGED failure
               /\ observed' = [observed EXCEPT ![index] = PublishedAs]
      <3>1. PublishedAs \in Dispositions
        BY <1>0, <1>a, InItem DEF PublishedAs, Dispositions, PlanItem
      <3> QED BY <1>a, <2>2, <3>1, TypeSplit DEF ReportType, Goto, Phases,
              ItemPhases
    <2> QED BY <2>1, <2>2, Zenon DEF JournalPublished
  <1> QED BY <1>1, <1>2, <1>3, <1>4, <1>5, TypeSplitPrime

LEMMA TypeJournalItemFailure ==
    ASSUME TypeInv, JournalItemFailure
    PROVE  TypeInv'
  <1>0. pc \in ItemPhases
    BY DEF JournalItemFailure, At, ItemPhases
  <1>1. ItemVarsType' /\ TreeType' /\ ResultsType' /\ OtherType'
    BY KeptType DEF JournalItemFailure, reportVars
  <1>2. JournalType'
    <2>1. (IF failure.error = "cancelled" THEN "itemCancelled"
           ELSE "itemFailed") \in RecordKinds
      BY DEF RecordKinds
    <2>2. Rec(IF failure.error = "cancelled" THEN "itemCancelled"
              ELSE "itemFailed", index, NoLocation, FALSE) \in Record
      BY <1>0, <2>1, InItem, RecType
    <2> QED BY <2>2, TypeSplit, AppendedType, AppendFailedType
            DEF JournalItemFailure
  <1>3. ReportType'
    BY <1>0, InItem, TypeSplit, MoveType
       DEF JournalItemFailure, reportVars, itemVars, Phases, ItemPhases
  <1> QED BY <1>1, <1>2, <1>3, TypeSplitPrime

(* The manifest.                                                           *)
LEMMA TypePrepareManifest ==
    ASSUME TypeInv, PrepareManifest
    PROVE  TypeInv'
  <1>1. JournalType' /\ TreeType' /\ ItemVarsType' /\ ResultsType'
    BY KeptType DEF PrepareManifest
  <1>2. OtherType'
    <2>1. ASSUME NEW i \in Items PROVE Disposition(i) \in Dispositions
      <3>1. Plan[i] \in PlanItem
        BY DEF Items
      <3>2. i \in Nat /\ Len(results) \in Nat
        BY TypeSplit, PlanLength DEF Items, ResultsType
      <3> QED BY <3>1, <3>2 DEF Disposition, Dispositions, PlanItem
    <2>2. ASSUME NEW i \in Items
          PROVE  SidecarEvidence(i) \in Locations \cup {NoLocation}
      <3>1. i \in Nat /\ i # 0
        BY PlanLength DEF Items
      <3>2. i <= Len(results) =>
               results[i].sidecar \in Locations \cup {NoLocation}
        <4>1. results \in Seq([sidecar : Locations \cup {NoLocation},
                               durable : BOOLEAN])
          BY TypeSplit DEF ResultsType
        <4>2. ASSUME i <= Len(results)
              PROVE  results[i] \in [sidecar : Locations \cup {NoLocation},
                                    durable : BOOLEAN]
          <5>1. i \in 1 .. Len(results)
            BY <3>1, <4>1, <4>2
          <5> QED BY <4>1, <5>1, ElementOfSeq
        <4> QED BY <4>2
      <3>3. failure.sidecar \in Locations \cup {NoLocation}
        BY TypeSplit DEF ReportType
      <3> QED BY <3>2, <3>3 DEF SidecarEvidence
    <2>3. Len(journal) \in Nat
      BY TypeSplit DEF JournalType
    <2>4. manifest' \in {manifest} \cup
                        [prefix : Nat, outcomes : [Items -> Dispositions],
                         sidecars : [Items -> Locations \cup {NoLocation}]]
      BY <2>1, <2>2, <2>3 DEF PrepareManifest
    <2> QED BY <2>4, TypeSplit DEF PrepareManifest, OtherType, envVars
  <1>3. ReportType'
    BY TypeSplit, MoveType
       DEF PrepareManifest, itemVars, Phases, ItemPhases, Errors
  <1> QED BY <1>1, <1>2, <1>3, TypeSplitPrime

LEMMA TypeManifestSteps ==
    ASSUME TypeInv,
           \/ JournalManifestPrepared \/ LinkManifest \/ JournalLinkFailure
           \/ JournalManifestPublished
    PROVE  TypeInv'
  <1>1. ItemVarsType' /\ ResultsType' /\ OtherType'
    BY KeptType DEF JournalManifestPrepared, LinkManifest, JournalLinkFailure,
                    JournalManifestPublished, reportVars
  <1>2. TreeType'
    <2>1. "manifest" \in EntryKinds /\ 0 \in 0 .. Len(Plan)
      BY PlanLength DEF EntryKinds
    <2> QED BY <2>1, KeptType, TypeSplit, PlaceType
            DEF JournalManifestPrepared, LinkManifest, JournalLinkFailure,
                JournalManifestPublished
  <1>3. JournalType'
    <2>1. {"manifestPrepared", "jobFailed", "manifestPublished"}
             \subseteq RecordKinds
          /\ 0 \in 0 .. Len(Plan) /\ ManifestAt \in Locations \cup {NoLocation}
      BY PlanLength DEF RecordKinds, ManifestAt, Locations, Directories
    <2>2. synced \in BOOLEAN
      BY TypeSplit DEF ItemVarsType
    <2>3. /\ Rec("manifestPrepared", 0, ManifestAt, FALSE) \in Record
          /\ Rec("jobFailed", 0, NoLocation, FALSE) \in Record
          /\ Rec("manifestPublished", 0, ManifestAt, synced) \in Record
      BY <2>1, <2>2, RecType
    <2> QED BY <2>3, KeptType, TypeSplit, AppendedType, AppendFailedType
            DEF JournalManifestPrepared, LinkManifest, JournalLinkFailure,
                JournalManifestPublished
  <1>4. ReportType'
    <2>1. UNCHANGED <<failure, observed>> /\ index' = index
      BY DEF JournalManifestPrepared, LinkManifest, JournalLinkFailure,
             JournalManifestPublished, reportVars, itemVars
    <2>2. \/ \E p \in Phases \ ItemPhases : Goto(p)
          \/ \E e \in Errors : Return(e)
      BY DEF JournalManifestPrepared, LinkManifest, JournalLinkFailure,
             JournalManifestPublished, Phases, ItemPhases, Errors
    <2> QED BY <2>1, <2>2, TypeSplit, MoveType
  <1> QED BY <1>1, <1>2, <1>3, <1>4, TypeSplitPrime

LEMMA TypeJournalTerminal ==
    ASSUME TypeInv, JournalTerminal
    PROVE  TypeInv'
  <1>1. ItemVarsType' /\ TreeType' /\ ResultsType'
    BY KeptType DEF JournalTerminal
  <1>2. OtherType'
    <2>1. announced' = TRUE \/ UNCHANGED announced
      BY DEF JournalTerminal
    <2> QED BY <2>1, TypeSplit DEF JournalTerminal, OtherType, envVars
  <1>3. JournalType'
    <2>1. ASSUME NEW k \in {"jobCompleted", "jobCancelled", "jobFailed"},
                 NEW d \in BOOLEAN
          PROVE  Rec(k, 0, NoLocation, d) \in Record
      <3>1. k \in RecordKinds /\ 0 \in 0 .. Len(Plan)
        BY PlanLength DEF RecordKinds
      <3> QED BY <3>1, RecType
    <2>2. (CASE failure.error = "none"      -> "jobCompleted"
             [] failure.error = "cancelled" -> "jobCancelled"
             [] OTHER                       -> "jobFailed")
             \in {"jobCompleted", "jobCancelled", "jobFailed"}
      OBVIOUS
    <2>3. (failure.error = "none" /\ AllDurable) \in BOOLEAN
      OBVIOUS
    <2>4. PICK r \in Record : Appended(r) \/ \E e \in Errors : AppendFailed(r, e)
      BY <2>1, <2>2, <2>3 DEF JournalTerminal
    <2> QED BY <2>4, TypeSplit, AppendedType, AppendFailedType
  <1>4. ReportType'
    <2>1. UNCHANGED <<failure, observed>> /\ index' = index
      BY DEF JournalTerminal, itemVars
    <2>2. \E e \in Errors \cup {"ok"} : Return(e)
      <3>1. failure.error \in Errors \cup {"none"}
        BY TypeSplit DEF ReportType
      <3>2. "needsReconciliation" \in Errors
        BY DEF Errors
      <3> QED BY <3>1, <3>2 DEF JournalTerminal
    <2> QED BY <2>1, <2>2, TypeSplit, MoveType
  <1> QED BY <1>1, <1>2, <1>3, <1>4, TypeSplitPrime

LEMMA TypeSurroundings ==
    ASSUME TypeInv,
           RequestCancel \/ ForeignCreate \/ Crash \/ PowerLoss \/ UNCHANGED vars
    PROVE  TypeInv'
  <1>1. ItemVarsType' /\ ResultsType'
    BY KeptType DEF RequestCancel, ForeignCreate, Crash, PowerLoss, vars, reportVars
  <1>2. JournalType'
    BY TypeSplit DEF JournalType, Tails, RequestCancel, ForeignCreate, Crash,
                     PowerLoss, vars, journalVars
  <1>3. TreeType'
    <2>1. CASE ForeignCreate
      <3>1. {"foreignFile", "foreignDirectory"} \subseteq EntryKinds
            /\ 0 \in 0 .. Len(Plan)
        BY PlanLength DEF EntryKinds
      <3> QED BY <2>1, <3>1, TypeSplit, PlaceType DEF ForeignCreate
    <2>2. CASE PowerLoss
      <3>1. NoEntry \in Entry
        BY PlanLength DEF NoEntry, Entry, EntryKinds
      <3> QED BY <2>2, <3>1, TypeSplit DEF PowerLoss, TreeType
    <2>3. CASE UNCHANGED tree
      BY <2>3, KeptType
    <2> QED BY <2>1, <2>2, <2>3 DEF RequestCancel, Crash, vars
  <1>4. ReportType'
    BY TypeSplit DEF ReportType, RequestCancel, ForeignCreate, Crash, PowerLoss,
                     vars, reportVars, itemVars
  <1>5. OtherType'
    <2>1. OtherType
      BY TypeSplit
    <2>2. CASE RequestCancel
      BY <2>1, <2>2 DEF OtherType, RequestCancel, reportVars
    <2>3. CASE ForeignCreate
      BY <2>1, <2>3 DEF OtherType, ForeignCreate, reportVars
    <2>4. CASE Crash
      BY <2>1, <2>4 DEF OtherType, Crash, reportVars
    <2>5. CASE PowerLoss
      BY <2>1, <2>5 DEF OtherType, PowerLoss, reportVars
    <2>6. CASE UNCHANGED vars
      BY <2>1, <2>6 DEF OtherType, vars, reportVars, envVars
    <2> QED BY <2>2, <2>3, <2>4, <2>5, <2>6
  <1> QED BY <1>1, <1>2, <1>3, <1>4, <1>5, TypeSplitPrime

LEMMA TypeNext == TypeInv /\ [Next]_vars => TypeInv'
  <1> SUFFICES ASSUME TypeInv, [Next]_vars PROVE TypeInv'
    OBVIOUS
  <1>1. CASE WorkerStep
    <2>1. CASE CreateJob \/ JournalStarted
      BY <2>1, TypeJobSteps
    <2>2. CASE ItemStep
      BY <2>2, TypeItemStart, TypeOpenParents, TypeStream, TypeJournalSteps,
         TypeLinkSteps, TypeSyncSteps, TypeJournalSidecar, TypeJournalPublished,
         TypeJournalItemFailure DEF ItemStep
    <2>3. CASE ManifestStep
      BY <2>3, TypeJobSteps, TypePrepareManifest, TypeManifestSteps,
         TypeSyncSteps, TypeJournalTerminal DEF ManifestStep
    <2> QED BY <1>1, <2>1, <2>2, <2>3 DEF WorkerStep
  <1>2. CASE RequestCancel \/ ForeignCreate \/ Crash \/ PowerLoss \/ UNCHANGED vars
    BY <1>2, TypeSurroundings
  <1> QED BY <1>1, <1>2 DEF Next

(* Every variable keeps its type: in particular collision_index stays below *)
(* MAX_COLLISION_ATTEMPTS, every record names an item of the plan, and the  *)
(* loop of transaction.rs never indexes past the plan.                      *)
THEOREM TypeCorrect == Spec => []TypeOK
  <1>1. TypeInv => TypeOK
    BY DEF TypeInv
  <1> QED BY <1>1, TypeInit, TypeNext, PTL DEF Spec

-----------------------------------------------------------------------------
(* A poisoned journal ends the call: the invariant behind                  *)
(* PoisonStopsPublication.                                                 *)
PoisonInv == poisoned => pc = "returned"

(* The error of an append either leaves the journal sound, or poisons it   *)
(* and then FailItem and Return both end the call.                         *)
LEMMA PoisonNext == PoisonInv /\ [Next]_vars => PoisonInv'
  <1> SUFFICES ASSUME PoisonInv, [Next]_vars PROVE PoisonInv'
    OBVIOUS
  <1>1. ASSUME NEW r, Appended(r) PROVE PoisonInv'
    BY <1>1 DEF PoisonInv, Appended
  <1>2. ASSUME NEW e, NEW b, FailItem(e, b) PROVE PoisonInv'
    BY <1>2 DEF PoisonInv, FailItem, Return
  <1>3. ASSUME NEW e, Return(e) PROVE PoisonInv'
    BY <1>3 DEF PoisonInv, Return
  <1>4. ASSUME NEW p \in Phases, At(p), p # "returned", UNCHANGED journalVars
        PROVE  PoisonInv'
    BY <1>4 DEF PoisonInv, At, journalVars
  <1>5. CASE \/ CreateJob \/ ItemStart \/ SyncSidecar \/ BindDirectory
             \/ SyncData \/ ItemsDone \/ PrepareManifest \/ LinkManifest
             \/ SyncManifest \/ OpenParents \/ Stream \/ LinkSidecar
             \/ LinkData \/ CreateDirectory
    BY <1>4, <1>5 DEF CreateJob, ItemStart, SyncSidecar, BindDirectory, SyncData,
       ItemsDone, PrepareManifest, LinkManifest, SyncManifest, OpenParents,
       Stream, LinkSidecar, LinkData, CreateDirectory, Phases
  <1>6. CASE \/ JournalPrepared \/ JournalSidecar \/ PlanDirectory
             \/ JournalPublished
    BY <1>1, <1>2, <1>6 DEF JournalPrepared, JournalSidecar, PlanDirectory,
       JournalPublished
  <1>7. CASE JournalReconciliation
    BY <1>2, <1>7 DEF JournalReconciliation
  <1>8. CASE \/ JournalStarted \/ JournalItemFailure \/ JournalManifestPrepared
             \/ JournalLinkFailure \/ JournalManifestPublished \/ JournalTerminal
    BY <1>1, <1>3, <1>8 DEF JournalStarted, JournalItemFailure,
       JournalManifestPrepared, JournalLinkFailure, JournalManifestPublished,
       JournalTerminal
  <1>9. CASE RequestCancel \/ ForeignCreate \/ Crash \/ PowerLoss \/ UNCHANGED vars
    BY <1>9 DEF PoisonInv, RequestCancel, ForeignCreate, Crash, PowerLoss, vars,
       journalVars
  <1> QED BY <1>5, <1>6, <1>7, <1>8, <1>9
          DEF Next, WorkerStep, ItemStep, ManifestStep

(* After a failed journal write nothing is published and no record added:  *)
(* the poisoned flag of journal.rs reaches every publication of            *)
(* transaction.rs, also those that append nothing before their link.       *)
THEOREM PoisonStops == Spec => PoisonStopsPublication
  <1>1. Init => PoisonInv
    BY DEF Init, PoisonInv
  <1>2. TypeInv /\ PoisonInv /\ [Next]_vars =>
          [poisoned => /\ journal' = journal
                       /\ \A l \in Locations : tree'[l].kind \in
                            {tree[l].kind, "none", "foreignFile",
                             "foreignDirectory"}]_vars
    <2> SUFFICES ASSUME TypeInv, PoisonInv, [Next]_vars, poisoned
                 PROVE  /\ journal' = journal
                        /\ \A l \in Locations : tree'[l].kind \in
                             {tree[l].kind, "none", "foreignFile",
                              "foreignDirectory"}
      OBVIOUS
    <2>1. ~WorkerStep
      BY DEF PoisonInv, WorkerStep, ItemStep, ManifestStep, At, CreateJob,
         JournalStarted, ItemStart, OpenParents, Stream, JournalPrepared,
         LinkSidecar, SyncSidecar, JournalSidecar, LinkData, PlanDirectory,
         CreateDirectory, BindDirectory, JournalReconciliation, SyncData,
         JournalPublished, JournalItemFailure, ItemsDone, PrepareManifest,
         JournalManifestPrepared, LinkManifest, JournalLinkFailure,
         SyncManifest, JournalManifestPublished, JournalTerminal
    <2>2. CASE RequestCancel \/ Crash \/ UNCHANGED vars
      BY <2>2 DEF RequestCancel, Crash, vars, journalVars
    <2>3. CASE ForeignCreate
      BY <2>3, TypeSplit DEF ForeignCreate, journalVars, Place, New, TreeType
    <2>4. CASE PowerLoss
      BY <2>4, TypeSplit DEF PowerLoss, NoEntry, TreeType
    <2> QED BY <2>1, <2>2, <2>3, <2>4 DEF Next
  <1> QED BY <1>1, <1>2, TypeInit, TypeNext, PoisonNext, PTL
          DEF Spec, PoisonStopsPublication

-----------------------------------------------------------------------------
(* Write ahead: the inductive invariant behind IntentIsDurable.  It names  *)
(* what has been recorded on the way to each publication.                  *)
PreparedPhases == {"linkSidecar", "syncSidecar", "journalSidecar", "linkData",
                   "planDirectory", "createDirectory"}

IntentInv ==
    /\ IntentIsDurable
    /\ pc \in PreparedPhases => Logged("itemPrepared", index)
    /\ pc = "createDirectory" =>
          LoggedAt("directoryPublicationPlanned", index, Candidate(Item.base))
    /\ pc = "linkManifest" => LoggedAt("manifestPrepared", 0, ManifestAt)

(* The journal only grows, so what was recorded stays recorded.            *)
JournalGrows ==
    /\ \A k, i : Logged(k, i) => Logged(k, i)'
    /\ \A k, i, l : LoggedAt(k, i, l) => LoggedAt(k, i, l)'

LEMMA AppendedGrows ==
    ASSUME JournalType, NEW r, Appended(r)
    PROVE  JournalGrows /\ LoggedAt(r.kind, r.item, r.at)'
           /\ Logged(r.kind, r.item)'
  <1>1. journal \in Seq(Record \cup {r}) /\ journal' = Append(journal, r)
    BY DEF JournalType, Appended
  <1>2. /\ Len(journal') = Len(journal) + 1
        /\ \A n \in 1 .. Len(journal) : journal'[n] = journal[n]
        /\ journal'[Len(journal) + 1] = r
        /\ Len(journal) \in Nat
    BY <1>1
  <1>3. DOMAIN journal = 1 .. Len(journal) /\ DOMAIN journal' = 1 .. Len(journal')
    BY <1>1
  <1>4. ASSUME NEW n \in DOMAIN journal
        PROVE  n \in DOMAIN journal' /\ journal'[n] = journal[n]
    BY <1>2, <1>3
  <1>5. Len(journal) + 1 \in DOMAIN journal'
    BY <1>2, <1>3
  <1> QED BY <1>2, <1>4, <1>5 DEF JournalGrows, Logged, LoggedAt

LEMMA KeptGrows ==
    ASSUME UNCHANGED journal
    PROVE  JournalGrows
  BY DEF JournalGrows, Logged, LoggedAt

(* The names a step adds, if any, are of no item and not the manifest.     *)
PublishedKinds == {"data", "sidecar", "directory", "manifest"}

QuietTree ==
    \A l \in Locations :
       tree'[l].kind \in PublishedKinds =>
          tree'[l].kind = tree[l].kind /\ tree'[l].owner = tree[l].owner

LEMMA QuietIntent ==
    ASSUME IntentIsDurable, JournalGrows, QuietTree
    PROVE  IntentIsDurable'
  BY DEF IntentIsDurable, IsAnnounced, JournalGrows, QuietTree, PublishedKinds

(* A published name that the journal announced.                            *)
LEMMA PlacedIntent ==
    ASSUME TreeType, IntentIsDurable, UNCHANGED journal,
           NEW l \in Locations, NEW k, NEW i, Place(l, New(k, i)),
           k \in {"data", "sidecar"} => Logged("itemPrepared", i),
           k = "directory" => LoggedAt("directoryPublicationPlanned", i, l),
           k = "manifest" => LoggedAt("manifestPrepared", 0, ManifestAt)
    PROVE  IntentIsDurable'
  <1>1. JournalGrows
    BY KeptGrows
  <1>2. tree' = [tree EXCEPT ![l] = New(k, i)]
    BY DEF Place
  <1>3. tree'[l].kind = k /\ tree'[l].owner = i
    BY <1>2 DEF TreeType, New
  <1>4. \A m \in Locations \ {l} : tree'[m] = tree[m]
    BY <1>2 DEF TreeType
  <1>5. ASSUME NEW m \in Locations PROVE IsAnnounced(m)'
    <2>1. CASE m = l
      BY <1>1, <1>3, <2>1 DEF JournalGrows, IsAnnounced
    <2>2. CASE m # l
      BY <1>1, <1>4, <2>2 DEF JournalGrows, IsAnnounced, IntentIsDurable
    <2> QED BY <2>1, <2>2
  <1> QED BY <1>5 DEF IntentIsDurable

LEMMA QuietCases ==
    ASSUME TreeType,
           \/ UNCHANGED tree
           \/ \E d, ok : SyncParent(d, ok)
           \/ \E l \in Locations :
                 \E k \in {"parent", "foreignFile", "foreignDirectory"} :
                    Place(l, New(k, 0))
    PROVE  QuietTree
  <1>1. CASE UNCHANGED tree
    BY <1>1 DEF QuietTree
  <1>2. CASE \E d, ok : SyncParent(d, ok)
    BY <1>2 DEF QuietTree, SyncParent, TreeType, Entry
  <1>3. CASE \E l \in Locations :
                \E k \in {"parent", "foreignFile", "foreignDirectory"} :
                   Place(l, New(k, 0))
    BY <1>3 DEF QuietTree, Place, New, TreeType, PublishedKinds
  <1> QED BY <1>1, <1>2, <1>3

(* The phases the records of IntentInv speak of.                           *)
Witnessed == PreparedPhases \cup {"linkManifest"}

LEMMA FailItemLeaves ==
    ASSUME NEW e, NEW b, FailItem(e, b)
    PROVE  pc' \notin Witnessed
  BY DEF FailItem, Goto, Return, Witnessed, PreparedPhases

LEMMA LeavingIntent ==
    ASSUME IntentInv, JournalGrows, QuietTree, pc' \notin Witnessed
    PROVE  IntentInv'
  BY QuietIntent DEF IntentInv, Witnessed, PreparedPhases

(* Steps that publish nothing and enter no phase of Witnessed.             *)
LEMMA IntentQuietSteps ==
    ASSUME TypeInv, TypeInv', IntentInv,
           \/ CreateJob \/ JournalStarted \/ ItemStart \/ OpenParents \/ Stream
           \/ BindDirectory \/ JournalReconciliation \/ SyncData
           \/ JournalPublished \/ JournalItemFailure \/ ItemsDone
           \/ PrepareManifest \/ JournalLinkFailure \/ SyncManifest
           \/ JournalManifestPublished \/ JournalTerminal
    PROVE  IntentInv'
  <1>1. TreeType /\ JournalType
    BY TypeSplit
  <1>2. QuietTree
    <2>1. CASE OpenParents
      <3>1. <<Root, Item.dir>> \in Locations \/ UNCHANGED tree
        <4>1. pc \in ItemPhases
          BY <2>1 DEF OpenParents, At, ItemPhases
        <4>2. Item.dir \in Directories
          BY <4>1, InItem, ItemType DEF PlanItem
        <4> QED BY <2>1, <4>2 DEF OpenParents, Locations, Directories
      <3> QED BY <1>1, <2>1, <3>1, QuietCases DEF OpenParents
    <2>2. CASE SyncData \/ SyncManifest
      BY <1>1, <2>2, QuietCases DEF SyncData, SyncManifest
    <2>3. CASE UNCHANGED tree
      BY <1>1, <2>3, QuietCases
    <2> QED BY <2>1, <2>2, <2>3
            DEF CreateJob, JournalStarted, ItemStart, Stream, BindDirectory,
                JournalReconciliation, JournalPublished, JournalItemFailure,
                ItemsDone, PrepareManifest, JournalLinkFailure,
                JournalManifestPublished, JournalTerminal
  <1>3. JournalGrows
    <2>1. (\E r : Appended(r)) \/ UNCHANGED journal
      BY DEF CreateJob, JournalStarted, ItemStart, OpenParents, Stream,
             BindDirectory, JournalReconciliation, SyncData, JournalPublished,
             JournalItemFailure, ItemsDone, PrepareManifest, JournalLinkFailure,
             SyncManifest, JournalManifestPublished, JournalTerminal,
             AppendFailed, journalVars
    <2> QED BY <1>1, <2>1, AppendedGrows, KeptGrows
  <1>4. pc' \notin Witnessed
    BY FailItemLeaves
       DEF CreateJob, JournalStarted, ItemStart, OpenParents, Stream,
           BindDirectory, JournalReconciliation, SyncData, JournalPublished,
           JournalItemFailure, ItemsDone, PrepareManifest, JournalLinkFailure,
           SyncManifest, JournalManifestPublished, JournalTerminal,
           Goto, Return, Witnessed, PreparedPhases
  <1> QED BY <1>2, <1>3, <1>4, LeavingIntent

(* Steps that record an intent, or go on under one.                        *)
LEMMA IntentRecordSteps ==
    ASSUME TypeInv, IntentInv,
           \/ JournalPrepared \/ SyncSidecar \/ JournalSidecar \/ PlanDirectory
           \/ JournalManifestPrepared
    PROVE  IntentInv'
  <1>1. TreeType /\ JournalType
    BY TypeSplit
  <1>2. QuietTree
    BY <1>1, QuietCases DEF JournalPrepared, SyncSidecar, JournalSidecar,
       PlanDirectory, JournalManifestPrepared
  <1>3. JournalGrows
    <2>1. (\E r : Appended(r)) \/ UNCHANGED journal
      BY DEF JournalPrepared, SyncSidecar, JournalSidecar, PlanDirectory,
         JournalManifestPrepared, AppendFailed, journalVars
    <2> QED BY <1>1, <2>1, AppendedGrows, KeptGrows
  <1>4. IntentIsDurable'
    BY <1>2, <1>3, QuietIntent DEF IntentInv
  <1>5. index' = index
    BY DEF JournalPrepared, SyncSidecar, JournalSidecar, PlanDirectory,
       JournalManifestPrepared, itemVars
  <1>6. CASE pc' \notin Witnessed
    BY <1>2, <1>3, <1>6, LeavingIntent
  <1>7. CASE JournalPrepared /\ pc' \in Witnessed
    <2>1. Appended(Rec("itemPrepared", index, NoLocation, FALSE))
          /\ pc' \in {"planDirectory", "linkSidecar", "linkData"}
      BY <1>7, FailItemLeaves DEF JournalPrepared, Goto
    <2>2. Logged("itemPrepared", index)'
      BY <1>1, <1>5, <2>1, AppendedGrows DEF Rec
    <2> QED BY <1>4, <2>1, <2>2 DEF IntentInv
  <1>8. CASE (SyncSidecar \/ JournalSidecar) /\ pc' \in Witnessed
    <2>1. pc' \in {"journalSidecar", "linkData"} /\ pc \in PreparedPhases
      BY <1>8, FailItemLeaves
         DEF SyncSidecar, JournalSidecar, Goto, At, PreparedPhases
    <2>2. Logged("itemPrepared", index)'
      BY <1>3, <1>5, <2>1 DEF IntentInv, JournalGrows
    <2> QED BY <1>4, <2>1, <2>2 DEF IntentInv
  <1>9. CASE PlanDirectory /\ pc' \in Witnessed
    <2>1. /\ Appended(Rec("directoryPublicationPlanned", index,
                          Candidate(Item.base), FALSE))
          /\ pc' = "createDirectory" /\ pc \in PreparedPhases
      BY <1>9, FailItemLeaves DEF PlanDirectory, Goto, At, PreparedPhases
    <2>2. Logged("itemPrepared", index)'
      BY <1>3, <1>5, <2>1 DEF IntentInv, JournalGrows
    <2>3. Candidate(Item.base)' = Candidate(Item.base)
      BY <1>9 DEF PlanDirectory, itemVars, Candidate, Item
    <2>4. LoggedAt("directoryPublicationPlanned", index, Candidate(Item.base))'
      BY <1>1, <1>5, <2>1, <2>3, AppendedGrows DEF Rec
    <2> QED BY <1>4, <2>1, <2>2, <2>4 DEF IntentInv
  <1>10. CASE JournalManifestPrepared /\ pc' \in Witnessed
    <2>1. Appended(Rec("manifestPrepared", 0, ManifestAt, FALSE))
          /\ pc' = "linkManifest"
      BY <1>10 DEF JournalManifestPrepared, Goto, Return, Witnessed,
         PreparedPhases
    <2>2. LoggedAt("manifestPrepared", 0, ManifestAt)'
      BY <1>1, <2>1, AppendedGrows DEF Rec, ManifestAt
    <2> QED BY <1>4, <2>1, <2>2 DEF IntentInv, PreparedPhases
  <1> QED BY <1>6, <1>7, <1>8, <1>9, <1>10

(* A taken name, and a link that fails.                                    *)
LEMMA IntentRetry ==
    ASSUME TypeInv, IntentInv, UNCHANGED journal, index' = index, UNCHANGED tree,
           pc \in PreparedPhases,
           \/ \E p \in {"linkSidecar", "linkData", "planDirectory"} : Goto(p)
           \/ \E e, b : FailItem(e, b)
    PROVE  IntentInv'
  <1>1. JournalGrows /\ QuietTree
    BY TypeSplit, KeptGrows, QuietCases
  <1>2. CASE \E p \in {"linkSidecar", "linkData", "planDirectory"} : Goto(p)
    <2>1. pc' \in {"linkSidecar", "linkData", "planDirectory"}
      BY <1>2 DEF Goto
    <2>2. IntentIsDurable'
      BY <1>1, QuietIntent DEF IntentInv
    <2>3. Logged("itemPrepared", index)'
      BY <1>1 DEF IntentInv, JournalGrows
    <2> QED BY <2>1, <2>2, <2>3 DEF IntentInv
  <1>3. CASE \E e, b : FailItem(e, b)
    BY <1>1, <1>3, FailItemLeaves, LeavingIntent
  <1> QED BY <1>2, <1>3

LEMMA NextNameShape ==
    ASSUME NEW l, NEW p, NextName(l, p)
    PROVE  UNCHANGED tree /\ (Goto(p) \/ \E e, b : FailItem(e, b))
  BY Zenon DEF NextName

(* Steps that link or create a name.                                       *)
LEMMA IntentLinkSteps ==
    ASSUME TypeInv, IntentInv,
           LinkSidecar \/ LinkData \/ CreateDirectory \/ LinkManifest
    PROVE  IntentInv'
  <1>1. TreeType
    BY TypeSplit
  <1>2. UNCHANGED journal
    BY DEF LinkSidecar, LinkData, CreateDirectory, LinkManifest, journalVars
  <1>3. JournalGrows
    BY <1>2, KeptGrows
  <1>4. index' = index
    BY DEF LinkSidecar, LinkData, CreateDirectory, LinkManifest, itemVars
  <1>5. CASE LinkSidecar
    <2>1. /\ pc \in PreparedPhases /\ Logged("itemPrepared", index)
          /\ Candidate(Item.sidecar) \in Locations
      BY <1>5, InItem DEF LinkSidecar, At, PreparedPhases, ItemPhases, IntentInv
    <2>2. CASE Place(Candidate(Item.sidecar), New("sidecar", index))
               /\ Goto("syncSidecar")
      <3>1. IntentIsDurable'
        BY <1>1, <1>2, <2>1, <2>2, PlacedIntent DEF IntentInv
      <3>2. Logged("itemPrepared", index)' /\ pc' = "syncSidecar"
        BY <1>3, <1>4, <2>1, <2>2 DEF JournalGrows, Goto
      <3> QED BY <3>1, <3>2 DEF IntentInv
    <2>3. CASE NextName(Candidate(Item.sidecar), "linkSidecar")
      BY <1>2, <1>4, <2>1, <2>3, NextNameShape, IntentRetry
    <2>4. CASE UNCHANGED tree /\ FailItem("hardLinkPublication", FALSE)
      BY <1>2, <1>4, <2>1, <2>4, IntentRetry
    <2> QED BY <1>5, <2>2, <2>3, <2>4 DEF LinkSidecar
  <1>6. CASE LinkData
    <2>1. /\ pc \in PreparedPhases /\ Logged("itemPrepared", index)
          /\ Candidate(Item.base) \in Locations
      BY <1>6, InItem DEF LinkData, At, PreparedPhases, ItemPhases, IntentInv
    <2>2. CASE Place(Candidate(Item.base), New("data", index))
               /\ Goto("syncData")
      <3>1. IntentIsDurable'
        BY <1>1, <1>2, <2>1, <2>2, PlacedIntent DEF IntentInv
      <3>2. pc' = "syncData"
        BY <2>2 DEF Goto
      <3> QED BY <3>1, <3>2 DEF IntentInv, PreparedPhases
    <2>3. CASE NextName(Candidate(Item.base), "linkData")
      BY <1>2, <1>4, <2>1, <2>3, NextNameShape, IntentRetry
    <2>4. CASE UNCHANGED tree /\ FailItem("hardLinkPublication", FALSE)
      BY <1>2, <1>4, <2>1, <2>4, IntentRetry
    <2> QED BY <1>6, <2>2, <2>3, <2>4 DEF LinkData
  <1>7. CASE CreateDirectory
    <2>1. /\ pc \in PreparedPhases /\ Candidate(Item.base) \in Locations
          /\ LoggedAt("directoryPublicationPlanned", index,
                      Candidate(Item.base))
      BY <1>7, InItem DEF CreateDirectory, At, PreparedPhases, ItemPhases,
         IntentInv
    <2>2. CASE Place(Candidate(Item.base), New("directory", index))
               /\ Goto("bindDirectory")
      <3>1. IntentIsDurable'
        BY <1>1, <1>2, <2>1, <2>2, PlacedIntent DEF IntentInv
      <3>2. pc' = "bindDirectory"
        BY <2>2 DEF Goto
      <3> QED BY <3>1, <3>2 DEF IntentInv, PreparedPhases
    <2>3. CASE NextName(Candidate(Item.base), "planDirectory")
      BY <1>2, <1>4, <2>1, <2>3, NextNameShape, IntentRetry
    <2>4. CASE UNCHANGED tree /\ FailItem("restoreFailure", FALSE)
      BY <1>2, <1>4, <2>1, <2>4, IntentRetry
    <2> QED BY <1>7, <2>2, <2>3, <2>4 DEF CreateDirectory
  <1>8. CASE LinkManifest
    <2>1. pc' \notin Witnessed
      BY <1>8 DEF LinkManifest, Goto, Return, Witnessed, PreparedPhases
    <2>2. CASE Place(ManifestAt, New("manifest", 0))
      <3>1. LoggedAt("manifestPrepared", 0, ManifestAt)
        BY <1>8 DEF LinkManifest, At, IntentInv
      <3>2. ManifestAt \in Locations
        BY DEF ManifestAt, Locations, Directories
      <3>3. IntentIsDurable'
        BY <1>1, <1>2, <2>2, <3>1, <3>2, PlacedIntent DEF IntentInv
      <3> QED BY <2>1, <3>3 DEF IntentInv, Witnessed, PreparedPhases
    <2>3. CASE UNCHANGED tree
      BY <1>1, <1>3, <2>1, <2>3, QuietCases, LeavingIntent
    <2> QED BY <1>8, <2>2, <2>3 DEF LinkManifest
  <1> QED BY <1>5, <1>6, <1>7, <1>8

(* A cancellation, a name of another program, a crash, a power loss.       *)
LEMMA IntentSurroundings ==
    ASSUME TypeInv, IntentInv,
           RequestCancel \/ ForeignCreate \/ Crash \/ PowerLoss \/ UNCHANGED vars
    PROVE  IntentInv'
  <1>1. UNCHANGED <<pc, index, attempt, journal>>
    BY DEF RequestCancel, ForeignCreate, Crash, PowerLoss, vars, itemVars,
       journalVars
  <1>2. JournalGrows
    BY <1>1, KeptGrows
  <1>3. QuietTree
    <2>1. CASE ForeignCreate
      BY <2>1, TypeSplit, QuietCases DEF ForeignCreate
    <2>2. CASE PowerLoss
      BY <2>2 DEF PowerLoss, QuietTree, NoEntry, PublishedKinds
    <2>3. CASE UNCHANGED tree
      BY <2>3, TypeSplit, QuietCases
    <2> QED BY <2>1, <2>2, <2>3 DEF RequestCancel, Crash, vars
  <1>4. IntentIsDurable'
    BY <1>2, <1>3, QuietIntent DEF IntentInv
  <1>5. Candidate(Item.base)' = Candidate(Item.base)
    BY <1>1 DEF Candidate, Item
  <1>6. /\ pc' \in PreparedPhases => Logged("itemPrepared", index)'
        /\ pc' = "linkManifest" => LoggedAt("manifestPrepared", 0, ManifestAt)'
    BY <1>1, <1>2 DEF IntentInv, JournalGrows, ManifestAt
  <1>7. pc' = "createDirectory" =>
           LoggedAt("directoryPublicationPlanned", index, Candidate(Item.base))'
    BY <1>1, <1>2, <1>5 DEF IntentInv, JournalGrows
  <1> QED BY <1>4, <1>6, <1>7 DEF IntentInv

LEMMA IntentNext == TypeInv /\ IntentInv /\ [Next]_vars => IntentInv'
  <1> SUFFICES ASSUME TypeInv, IntentInv, [Next]_vars PROVE IntentInv'
    OBVIOUS
  <1>1. TypeInv'
    BY TypeNext
  <1>2. CASE WorkerStep
    BY <1>1, <1>2, IntentQuietSteps, IntentRecordSteps, IntentLinkSteps
       DEF WorkerStep, ItemStep, ManifestStep
  <1>3. CASE RequestCancel \/ ForeignCreate \/ Crash \/ PowerLoss \/ UNCHANGED vars
    BY <1>3, IntentSurroundings
  <1> QED BY <1>2, <1>3 DEF Next

(* Write ahead, for every plan and every failure: no name the job creates  *)
(* is ever visible without the journal record, written and synchronized    *)
(* before the link or create_dir, that announces it.                       *)
THEOREM WriteAhead == Spec => []IntentIsDurable
  <1>1. Init => IntentInv
    BY DEF Init, IntentInv, IntentIsDurable, IsAnnounced, NoEntry, PreparedPhases
  <1>2. IntentInv => IntentIsDurable
    BY DEF IntentInv
  <1> QED BY <1>1, <1>2, TypeInit, TypeNext, IntentNext, PTL DEF Spec

-----------------------------------------------------------------------------
(***************************************************************************)
(* What a restore leaves is what it says: the journal, the manifest, the   *)
(* observer and the directory of RestoreTransaction agree, for every plan, *)
(* every set of names, every bound and every failure.                      *)
(*                                                                         *)
(* The argument is one invariant in eight parts beside the types, each     *)
(* proved with the parts before it: ProgressInv (where the job is),        *)
(* ObservedInv (what was told), RecordInv (what was recorded), LinkedInv   *)
(* (the manifest comes last), PlaceInv (what a step has just named is      *)
(* there), EntryInv (what is in the directory), ClaimInv (what records say *)
(* is there) and SealInv (what the manifest says).  The same invariant     *)
(* proves the engine's two refinements, in the second half.                *)
(***************************************************************************)

(* The phases before the first record of an item, those in which no item   *)
(* has failed, those with the item's name in place, and the manifest's.    *)
EarlyPhases  == {"createJob", "journalStarted", "itemStart", "openParents",
                 "stream", "journalPrepared"}
PlacedPhases == {"bindDirectory", "journalReconciliation", "syncData",
                 "journalPublished"}
WorkPhases   == EarlyPhases \cup PreparedPhases \cup PlacedPhases
SealPhases   == {"linkManifest", "journalLinkFailure", "syncManifest",
                 "journalManifestPublished", "journalTerminal"}
ManifestPhases == {"prepareManifest", "journalManifestPrepared"} \cup SealPhases

FilePhases      == {"stream", "linkSidecar", "syncSidecar", "journalSidecar",
                    "linkData"}
DirectoryPhases == {"planDirectory", "createDirectory", "bindDirectory",
                    "journalReconciliation"}

(* How far the job is.                                                     *)
ProgressInv ==
    /\ Len(results) = index - 1
    /\ pc = "returned" <=> returned # "none"
    /\ poisoned => pc = "returned"
    /\ pc \in {"createJob", "journalStarted"} => index = 1
    /\ failure.error = "none" => failure = NoFailure
    /\ failure.error # "none" => index \in Items /\ failure.sidecar = sidecar
    /\ failure.error = "cancelled" => ~failure.published
    /\ pc \in WorkPhases => failure.error = "none"
    /\ pc = "journalItemFailure" => failure.error # "none" /\ ~failure.published
    /\ pc \in ManifestPhases => (failure.error = "none" <=> index = Len(Plan) + 1)
    /\ pc \in FilePhases => Item.kind = "file"
    /\ pc \in DirectoryPhases => Item.kind = "directory"
    /\ failure.published => Item.kind = "directory"
    /\ returned = "ok" => failure.error = "none" /\ index = Len(Plan) + 1 /\ announced

(* How an append ends.                                                     *)
LEMMA AppendError ==
    ASSUME NEW r, NEW e, AppendFailed(r, e)
    PROVE  /\ ~poisoned /\ UNCHANGED journal
           /\ \/ e = "journalRecordLimit" /\ ~poisoned' /\ Len(journal) >= MaxRecords
              \/ e = "journalDurability" /\ poisoned'
  BY DEF AppendFailed, journalVars

LEMMA AppendDone ==
    ASSUME NEW r, Appended(r)
    PROVE  ~poisoned /\ ~poisoned' /\ Len(journal) < MaxRecords
  BY DEF Appended

(* The types the control needs.                                            *)
LEMMA ControlType ==
    ASSUME TypeInv
    PROVE  /\ index \in Nat /\ 1 <= index /\ index <= Len(Plan) + 1
           /\ Len(Plan) \in Nat /\ Items = 1 .. Len(Plan)
           /\ pc \in ItemPhases => index \in Items /\ Item \in PlanItem
           /\ poisoned \in BOOLEAN /\ failure.published \in BOOLEAN
           /\ failure.error \in Errors \cup {"none"}
  BY TypeSplit, PlanLength, InItem, ItemType
     DEF ItemVarsType, Items, JournalType, ReportType

-----------------------------------------------------------------------------
(* ProgressInv.                                                            *)

(* A step that appends goes on, fails its item, or ends the call.          *)
Stops == pc' = "returned" /\ returned' \notin {"none", "ok"}
GoesOn(S) == pc' \in S /\ ~poisoned' /\ UNCHANGED returned

LEMMA AppendSteps ==
    /\ JournalStarted => GoesOn({"itemStart"}) \/ Stops
    /\ JournalPrepared =>
          \/ /\ GoesOn(IF Item.kind = "directory" THEN {"planDirectory"}
                       ELSE {"linkSidecar", "linkData"})
             /\ UNCHANGED <<failure, observed>>
          \/ \E e \in {"journalRecordLimit", "journalDurability"} : FailItem(e, FALSE)
    /\ PlanDirectory =>
          \/ GoesOn({"createDirectory"}) /\ UNCHANGED <<failure, observed>>
          \/ \E e \in {"journalRecordLimit", "journalDurability"} : FailItem(e, FALSE)
    /\ JournalItemFailure => GoesOn({"prepareManifest"}) \/ Stops
    /\ JournalManifestPrepared => GoesOn({"linkManifest"}) \/ Stops
    /\ JournalLinkFailure => Stops
  <1>1. JournalStarted => GoesOn({"itemStart"}) \/ Stops
    BY AppendError, AppendDone DEF JournalStarted, Goto, Return, GoesOn, Stops
  <1>2. ASSUME JournalPrepared
        PROVE  \/ /\ GoesOn(IF Item.kind = "directory" THEN {"planDirectory"}
                            ELSE {"linkSidecar", "linkData"})
                  /\ UNCHANGED <<failure, observed>>
               \/ \E e \in {"journalRecordLimit", "journalDurability"} :
                     FailItem(e, FALSE)
    BY <1>2, AppendError, AppendDone DEF JournalPrepared, Goto, GoesOn
  <1>3. ASSUME PlanDirectory
        PROVE  \/ GoesOn({"createDirectory"}) /\ UNCHANGED <<failure, observed>>
               \/ \E e \in {"journalRecordLimit", "journalDurability"} :
                     FailItem(e, FALSE)
    BY <1>3, AppendError, AppendDone DEF PlanDirectory, Goto, GoesOn
  <1>4. JournalItemFailure => GoesOn({"prepareManifest"}) \/ Stops
    BY AppendError, AppendDone DEF JournalItemFailure, Goto, Return, GoesOn, Stops
  <1>5. JournalManifestPrepared => GoesOn({"linkManifest"}) \/ Stops
    BY AppendError, AppendDone DEF JournalManifestPrepared, Goto, Return, GoesOn, Stops
  <1>6. JournalLinkFailure => Stops
    BY AppendError, AppendDone DEF JournalLinkFailure, Return, Stops
  <1> QED BY <1>1, <1>2, <1>3, <1>4, <1>5, <1>6

LEMMA ProgressItemSteps ==
    ASSUME TypeInv, ProgressInv, ItemStep
    PROVE  ProgressInv'
  <1> USE ControlType DEF ProgressInv, At, Goto, Return, FailItem, NextName,
          itemVars, journalVars, reportVars, envVars, WorkPhases, EarlyPhases,
          PreparedPhases, PlacedPhases, SealPhases, ManifestPhases, FilePhases,
          DirectoryPhases, ItemPhases, NoFailure, Item, PlanItem, Items
  <1>1. CASE ItemStart
    <2>1. /\ UNCHANGED <<index, results, announced, returned, poisoned>>
          /\ At("itemStart") /\ index <= Len(Plan)
      BY <1>1 DEF ItemStart
    <2>2. CASE pc' = "openParents" /\ UNCHANGED failure
      BY <2>1, <2>2
    <2>3. CASE /\ pc' = "journalItemFailure" /\ sidecar' = NoLocation
               /\ failure' = [NoFailure EXCEPT !.error = "cancelled"]
      BY <2>1, <2>3
    <2> QED BY <1>1, <2>2, <2>3 DEF ItemStart
  <1>2. CASE OpenParents
    BY <1>2 DEF OpenParents
  <1>3. CASE Stream
    BY <1>3 DEF Stream
  <1>4. CASE JournalPrepared
    <2>1. At("journalPrepared") /\ UNCHANGED <<itemVars, results, announced>>
      BY <1>4 DEF JournalPrepared
    <2>2. \/ /\ GoesOn(IF Item.kind = "directory" THEN {"planDirectory"}
                       ELSE {"linkSidecar", "linkData"})
             /\ UNCHANGED <<failure, observed>>
          \/ \E e \in {"journalRecordLimit", "journalDurability"} :
                FailItem(e, FALSE)
      BY <1>4, AppendSteps
    <2> QED BY <2>1, <2>2 DEF GoesOn
  <1>5. CASE LinkSidecar
    BY <1>5 DEF LinkSidecar
  <1>6. CASE SyncSidecar
    BY <1>6 DEF SyncSidecar
  <1>7. CASE JournalSidecar
    BY <1>7, AppendError, AppendDone DEF JournalSidecar
  <1>8. CASE LinkData
    BY <1>8 DEF LinkData
  <1>9. CASE PlanDirectory
    <2>1. At("planDirectory") /\ UNCHANGED <<itemVars, results, announced>>
      BY <1>9 DEF PlanDirectory
    <2>2. \/ GoesOn({"createDirectory"}) /\ UNCHANGED <<failure, observed>>
          \/ \E e \in {"journalRecordLimit", "journalDurability"} :
                FailItem(e, FALSE)
      BY <1>9, AppendSteps
    <2> QED BY <2>1, <2>2 DEF GoesOn
  <1>10. CASE CreateDirectory
    BY <1>10 DEF CreateDirectory
  <1>11. CASE BindDirectory
    BY <1>11 DEF BindDirectory
  <1>12. CASE JournalReconciliation
    BY <1>12, AppendError, AppendDone DEF JournalReconciliation
  <1>13. CASE SyncData
    BY <1>13 DEF SyncData
  <1>14. CASE JournalPublished
    <2>1. CASE Goto("itemStart") /\ UNCHANGED failure /\ index' = index + 1
               /\ results' = Append(results, [sidecar |-> sidecar, durable |-> synced])
               /\ ~poisoned'
      <3>1. Len(results') = Len(results) + 1
        BY <2>1, TypeSplit DEF ResultsType
      <3>2. UNCHANGED <<sidecar, announced>> /\ At("journalPublished")
        BY <1>14 DEF JournalPublished
      <3> QED BY <2>1, <3>1, <3>2
    <2>2. CASE UNCHANGED <<index, results>>
               /\ FailItem("needsReconciliation", Item.kind = "directory")
      BY <1>14, <2>2 DEF JournalPublished
    <2> QED BY <1>14, <2>1, <2>2, AppendDone DEF JournalPublished
  <1>15. CASE JournalItemFailure
    <2>1. At("journalItemFailure") /\ UNCHANGED <<itemVars, reportVars>>
      BY <1>15 DEF JournalItemFailure
    <2>2. GoesOn({"prepareManifest"}) \/ Stops
      BY <1>15, AppendSteps
    <2> QED BY <2>1, <2>2 DEF GoesOn, Stops
  <1> QED BY <1>1, <1>2, <1>3, <1>4, <1>5, <1>6, <1>7, <1>8, <1>9, <1>10, <1>11, <1>12, <1>13, <1>14, <1>15 DEF ItemStep

LEMMA ProgressOtherSteps ==
    ASSUME TypeInv, ProgressInv, [Next]_vars, ~ItemStep
    PROVE  ProgressInv'
  <1> USE ControlType DEF ProgressInv, At, Goto, Return, itemVars, journalVars,
          reportVars, envVars, WorkPhases, EarlyPhases, PreparedPhases,
          PlacedPhases, SealPhases, ManifestPhases, FilePhases,
          DirectoryPhases, ItemPhases, NoFailure, Item, PlanItem, Items
  <1>1. CASE CreateJob
    BY <1>1 DEF CreateJob
  <1>2. CASE JournalStarted
    BY <1>2, AppendSteps DEF JournalStarted, GoesOn, Stops
  <1>3. CASE ItemsDone
    BY <1>3 DEF ItemsDone
  <1>4. CASE PrepareManifest
    BY <1>4 DEF PrepareManifest
  <1>5. CASE JournalManifestPrepared
    BY <1>5, AppendSteps DEF JournalManifestPrepared, GoesOn, Stops
  <1>6. CASE LinkManifest
    BY <1>6 DEF LinkManifest
  <1>7. CASE JournalLinkFailure
    BY <1>7, AppendSteps DEF JournalLinkFailure, GoesOn, Stops
  <1>8. CASE SyncManifest
    BY <1>8 DEF SyncManifest
  <1>9. CASE JournalManifestPublished
    BY <1>9, AppendError, AppendDone DEF JournalManifestPublished
  <1>10. CASE JournalTerminal
    BY <1>10, AppendError, AppendDone DEF JournalTerminal, Errors
  <1>11. CASE RequestCancel \/ ForeignCreate \/ Crash \/ PowerLoss \/ UNCHANGED vars
    BY <1>11 DEF RequestCancel, ForeignCreate, Crash, PowerLoss, vars
  <1> QED BY <1>1, <1>2, <1>3, <1>4, <1>5, <1>6, <1>7, <1>8, <1>9, <1>10, <1>11
          DEF Next, WorkerStep, ManifestStep

LEMMA ProgressNext == TypeInv /\ ProgressInv /\ [Next]_vars => ProgressInv'
  BY ProgressItemSteps, ProgressOtherSteps

-----------------------------------------------------------------------------
(* The observer was told the disposition of the items that are finished.   *)
ObservedInv ==
    /\ \A i \in Items :
          i < index \/ (i = index /\ failure.error # "none") =>
             observed[i] = Disposition(i)
    /\ \A i \in Items : i > index => observed[i] = "pending"
    /\ index \in Items /\ failure.error = "none" =>
          /\ observed[index] \in {"pending", "started"}
          /\ pc \in {"createJob", "journalStarted", "itemStart"} =>
                observed[index] = "pending"
          /\ pc \in ItemPhases => observed[index] = "started"

LEMMA ObservedInit == Init => ObservedInv
  <1> SUFFICES ASSUME Init PROVE ObservedInv
    OBVIOUS
  <1>1. index = 1 /\ failure.error = "none" /\ pc = "createJob"
        /\ \A i \in Items : observed[i] = "pending"
    BY DEF Init, NoFailure
  <1> QED BY <1>1, PlanLength DEF ObservedInv, Items, ItemPhases

(* A step that finishes no item.                                           *)
LEMMA ObservedMove ==
    ASSUME ObservedInv, UNCHANGED <<index, results, failure, observed>>,
           pc' \in {"createJob", "journalStarted", "itemStart"} =>
              pc \in {"createJob", "journalStarted", "itemStart"},
           pc' \in ItemPhases => pc \in ItemPhases \/ failure.error # "none"
    PROVE  ObservedInv'
  <1>1. \A i \in Items : Disposition(i)' = Disposition(i)
    BY DEF Disposition
  <1> QED BY <1>1 DEF ObservedInv

(* A step that fails its item tells the observer what the manifest will    *)
(* say.                                                                    *)
LEMMA ObservedFail ==
    ASSUME TypeInv, ProgressInv, ObservedInv, UNCHANGED <<index, results>>,
           pc \in ItemPhases \cap WorkPhases, NEW e \in Errors, NEW p \in BOOLEAN,
           e = "cancelled" => ~p, FailItem(e, p)
    PROVE  ObservedInv'
  <1>1. index \in Items /\ Len(results) = index - 1 /\ Items \subseteq Nat
        /\ failure.error = "none" /\ observed \in [Items -> Dispositions \cup {"pending", "started"}]
    BY ControlType, TypeSplit DEF ProgressInv, ReportType
  <1>2. CASE Return(e) /\ UNCHANGED <<failure, observed>>
    BY <1>1, <1>2, ObservedMove DEF Return, ItemPhases
  <1>3. CASE ~(Return(e) /\ UNCHANGED <<failure, observed>>)
    <2>1. /\ failure'.error = e /\ failure'.published = p /\ e # "none"
          /\ observed' = [observed EXCEPT ![index] =
                             CASE p               -> "directoryNeedsReconciliation"
                               [] e = "cancelled" -> "cancelled"
                               [] OTHER           -> "failed"]
      BY <1>3 DEF FailItem, Errors
    <2>2. Disposition(index)' = observed'[index]
      BY <1>1, <2>1 DEF Disposition
    <2>3. ASSUME NEW i \in Items, i # index
          PROVE  observed'[i] = observed[i] /\ (i < index => Disposition(i)' = Disposition(i))
      BY <1>1, <2>1, <2>3 DEF Disposition
    <2> QED BY <1>1, <2>1, <2>2, <2>3 DEF ObservedInv
  <1> QED BY <1>2, <1>3

LEMMA ObservedItemStart ==
    ASSUME TypeInv, ProgressInv, ObservedInv, ItemStart
    PROVE  ObservedInv'
  <1>1. /\ UNCHANGED <<index, results>> /\ pc = "itemStart" /\ index \in Items
        /\ Len(results) = index - 1 /\ Items \subseteq Nat /\ failure.error = "none"
        /\ observed \in [Items -> Dispositions \cup {"pending", "started"}]
    BY ControlType, TypeSplit
       DEF ItemStart, At, ProgressInv, ReportType, WorkPhases, EarlyPhases
  <1>2. \/ /\ pc' = "journalItemFailure" /\ failure'.error = "cancelled"
           /\ ~failure'.published /\ observed' = [observed EXCEPT ![index] = "cancelled"]
        \/ /\ pc' = "openParents" /\ UNCHANGED failure
           /\ observed' = [observed EXCEPT ![index] = "started"]
    BY DEF ItemStart, Goto, NoFailure
  <1>3. ASSUME NEW i \in Items, i # index
        PROVE  observed'[i] = observed[i] /\ (i < index => Disposition(i)' = Disposition(i))
    BY <1>1, <1>2, <1>3 DEF Disposition
  <1>4. failure'.error = "cancelled" => Disposition(index)' = observed'[index]
    BY <1>1, <1>2 DEF Disposition
  <1> QED BY <1>1, <1>2, <1>3, <1>4 DEF ObservedInv

(* The results keep what they say of earlier items when one is added.      *)
LEMMA ResultAdded ==
    ASSUME TypeInv, ProgressInv, JournalPublished, index' # index
    PROVE  /\ Len(results') = index /\ results'[index] = [sidecar |-> sidecar, durable |-> synced]
           /\ \A i \in 1 .. index - 1 : results'[i] = results[i]
  <1>1. /\ results \in Seq([sidecar : Locations \cup {NoLocation}, durable : BOOLEAN])
        /\ Len(results) = index - 1 /\ index \in Nat
    BY ControlType, TypeSplit DEF ResultsType, ProgressInv
  <1>2. results' = Append(results, [sidecar |-> sidecar, durable |-> synced])
    BY DEF JournalPublished
  <1> QED BY <1>1, <1>2

LEMMA ObservedJournalPublished ==
    ASSUME TypeInv, ProgressInv, ObservedInv, JournalPublished
    PROVE  ObservedInv'
  <1>1. /\ pc = "journalPublished" /\ index \in Items /\ Item \in PlanItem
        /\ Len(results) = index - 1 /\ Items \subseteq Nat /\ failure.error = "none"
        /\ observed \in [Items -> Dispositions \cup {"pending", "started"}]
        /\ synced \in BOOLEAN
    BY ControlType, TypeSplit
       DEF JournalPublished, At, ProgressInv, ReportType, WorkPhases, PlacedPhases,
           ItemPhases, ItemVarsType
  <1>2. CASE UNCHANGED <<index, results>>
             /\ FailItem("needsReconciliation", Item.kind = "directory")
    <2>1. "needsReconciliation" \in Errors /\ (Item.kind = "directory") \in BOOLEAN
      BY DEF Errors
    <2>2. pc \in ItemPhases \cap WorkPhases
      BY <1>1 DEF ItemPhases, WorkPhases, PlacedPhases
    <2> QED BY <1>2, <2>1, <2>2, ObservedFail
  <1>3. CASE /\ index' = index + 1 /\ UNCHANGED failure /\ pc' = "itemStart"
             /\ observed' = [observed EXCEPT ![index] = PublishedAs]
    <2>1. /\ Len(results') = index /\ results'[index].durable = synced
          /\ \A i \in 1 .. index - 1 : results'[i] = results[i]
      BY <1>1, <1>3, ResultAdded
    <2>2. ASSUME NEW i \in Items, i = index
          PROVE  Disposition(i)' = observed'[i]
      BY <2>2, <1>1, <1>3, <2>1 DEF Disposition, PublishedAs, Item, PlanItem
    <2>3. ASSUME NEW i \in Items, i # index
          PROVE  observed'[i] = observed[i] /\ (i < index => Disposition(i)' = Disposition(i))
      BY <1>1, <1>3, <2>1, <2>3 DEF Disposition, Items
    <2> QED BY <1>1, <1>3, <2>2, <2>3 DEF ObservedInv, ItemPhases
  <1> QED BY <1>2, <1>3 DEF JournalPublished, Goto

LEMMA ObservedNext == TypeInv /\ ProgressInv /\ ObservedInv /\ [Next]_vars => ObservedInv'
  <1> SUFFICES ASSUME TypeInv, ProgressInv, ObservedInv, [Next]_vars
               PROVE  ObservedInv'
    OBVIOUS
  <1> USE DEF At, Goto, Return, WorkPhases, EarlyPhases, PreparedPhases, PlacedPhases,
          ItemPhases, Errors
  <1>1. CASE OpenParents \/ Stream \/ JournalPrepared \/ PlanDirectory \/ JournalSidecar
    <2>1. UNCHANGED <<index, results>> /\ pc \in ItemPhases \cap WorkPhases
      BY <1>1 DEF OpenParents, Stream, JournalPrepared, PlanDirectory, JournalSidecar, itemVars
    <2>2. \/ \E p \in ItemPhases : Goto(p) /\ UNCHANGED <<failure, observed>>
          \/ \E e \in Errors : FailItem(e, FALSE)
      BY <1>1 DEF OpenParents, Stream, JournalPrepared, PlanDirectory, JournalSidecar
    <2>3. CASE \E p \in ItemPhases : Goto(p) /\ UNCHANGED <<failure, observed>>
      BY <2>1, <2>3, ObservedMove
    <2>4. CASE \E e \in Errors : FailItem(e, FALSE)
      BY <2>1, <2>4, ObservedFail
    <2> QED BY <2>2, <2>3, <2>4
  <1>2. CASE LinkSidecar \/ LinkData \/ CreateDirectory
    <2>1. UNCHANGED <<index, results>> /\ pc \in ItemPhases \cap WorkPhases
      BY <1>2 DEF LinkSidecar, LinkData, CreateDirectory
    <2>2. \/ \E p \in ItemPhases : Goto(p) /\ UNCHANGED <<failure, observed>>
          \/ \E e \in Errors : FailItem(e, FALSE)
      BY <1>2 DEF LinkSidecar, LinkData, CreateDirectory, NextName
    <2>3. CASE \E p \in ItemPhases : Goto(p) /\ UNCHANGED <<failure, observed>>
      BY <2>1, <2>3, ObservedMove
    <2>4. CASE \E e \in Errors : FailItem(e, FALSE)
      BY <2>1, <2>4, ObservedFail
    <2> QED BY <2>2, <2>3, <2>4
  <1>3. CASE JournalReconciliation
    <2>1. UNCHANGED <<index, results>> /\ pc \in ItemPhases \cap WorkPhases
          /\ FailItem("needsReconciliation", TRUE)
      BY <1>3 DEF JournalReconciliation, itemVars
    <2> QED BY <2>1, ObservedFail
  <1>4. CASE SyncSidecar \/ BindDirectory \/ SyncData
    BY <1>4, ObservedMove DEF SyncSidecar, BindDirectory, SyncData, reportVars
  <1>5. CASE CreateJob \/ JournalStarted \/ ItemsDone \/ JournalItemFailure
    BY <1>5, ObservedMove DEF CreateJob, JournalStarted, ItemsDone, JournalItemFailure,
       reportVars, itemVars
  <1>6. CASE \/ PrepareManifest \/ JournalManifestPrepared \/ LinkManifest
             \/ JournalLinkFailure \/ SyncManifest \/ JournalManifestPublished
             \/ JournalTerminal
    BY <1>6, ObservedMove DEF PrepareManifest, JournalManifestPrepared, LinkManifest,
       JournalLinkFailure, SyncManifest, JournalManifestPublished, JournalTerminal,
       reportVars, itemVars
  <1>7. CASE RequestCancel \/ ForeignCreate \/ Crash \/ PowerLoss \/ UNCHANGED vars
    BY <1>7, ObservedMove DEF RequestCancel, ForeignCreate, Crash, PowerLoss, vars,
       reportVars, itemVars
  <1> QED BY <1>1, <1>2, <1>3, <1>4, <1>5, <1>6, <1>7, ObservedItemStart,
             ObservedJournalPublished DEF Next, WorkerStep, ItemStep, ManifestStep

-----------------------------------------------------------------------------
(* The journal as a set: only SealInv asks for the order of its records.   *)
Records == {journal[n] : n \in DOMAIN journal}
JobKinds == {"jobStarted", "manifestPrepared", "manifestPublished",
             "jobCompleted", "jobFailed", "jobCancelled"}

Conclusion == IF failure.published THEN "directoryReconciliationRequired"
              ELSE IF failure.error = "cancelled" THEN "itemCancelled"
              ELSE "itemFailed"
Concluded == failure.error # "none" => Logged(Conclusion, index)

RecordIsRight(r) ==
    /\ r.item <= index
    /\ r.item = 0 <=> r.kind \in JobKinds
    /\ r.item = index => pc \notin EarlyPhases
    /\ r.kind = "itemPublished" =>
          r.item < index /\ r.durable = results[r.item].durable
    /\ r.kind = "directoryReconciliationRequired" =>
          r.item = index /\ failure.published
    /\ r.kind \in {"itemFailed", "itemCancelled"} =>
          /\ r.item = index /\ ~failure.published
          /\ failure.error # "none"
          /\ r.kind = "itemCancelled" <=> failure.error = "cancelled"
    /\ r.kind = "manifestPublished" =>
          r.at = ManifestAt
    /\ r.kind = "jobCompleted" =>
          /\ pc = "returned" /\ failure.error = "none" /\ index = Len(Plan) + 1
          /\ r.durable => \A i \in Items : results[i].durable

RecordInv ==
    /\ \A r \in Records : RecordIsRight(r)
    /\ \A i \in Items : i < index => Logged("itemPrepared", i) /\ Logged("itemPublished", i)
    /\ pc \in PreparedPhases \cup PlacedPhases => Logged("itemPrepared", index)
    /\ pc = "linkData" /\ partial[index] => Logged("itemSidecarPublished", index)
    /\ pc \in {"prepareManifest", "journalManifestPrepared"} =>
          Concluded \/ Len(journal) >= MaxRecords
    /\ pc \in SealPhases => Concluded

LEMMA RecordAdded ==
    ASSUME JournalType, NEW r, Appended(r)
    PROVE  /\ Records' = Records \cup {r}
           /\ \A k, i : Logged(k, i)' <=> Logged(k, i) \/ (r.kind = k /\ r.item = i)
           /\ Len(journal') = Len(journal) + 1 /\ Len(journal) \in Nat
           /\ DOMAIN journal' = DOMAIN journal \cup {Len(journal) + 1}
           /\ \A n \in DOMAIN journal : journal'[n] = journal[n]
           /\ journal'[Len(journal) + 1] = r
           /\ DOMAIN journal = 1 .. Len(journal)
  <1>1. journal \in Seq(Record \cup {r}) /\ journal' = Append(journal, r)
    BY DEF JournalType, Appended
  <1>2. /\ Len(journal') = Len(journal) + 1 /\ Len(journal) \in Nat
        /\ \A n \in 1 .. Len(journal) : journal'[n] = journal[n]
        /\ journal'[Len(journal) + 1] = r
        /\ DOMAIN journal = 1 .. Len(journal) /\ DOMAIN journal' = 1 .. Len(journal')
    BY <1>1
  <1>3. DOMAIN journal' = DOMAIN journal \cup {Len(journal) + 1}
    BY <1>2
  <1>4. \A n \in DOMAIN journal : journal'[n] = journal[n]
    BY <1>2
  <1>5. Records' = Records \cup {r}
    BY <1>2, <1>3, <1>4 DEF Records
  <1>6. \A k, i : Logged(k, i)' <=> Logged(k, i) \/ (r.kind = k /\ r.item = i)
    BY <1>2, <1>3, <1>4 DEF Logged
  <1> QED BY <1>2, <1>3, <1>4, <1>5, <1>6

LEMMA RecordKept ==
    ASSUME UNCHANGED journal
    PROVE  Records' = Records /\ \A k, i : Logged(k, i)' <=> Logged(k, i)
  BY DEF Records, Logged

LEMMA RecordInit == Init => RecordInv
  <1> SUFFICES ASSUME Init PROVE RecordInv
    OBVIOUS
  <1>1. index = 1 /\ pc = "createJob" /\ failure.error = "none" /\ journal = <<>>
    BY DEF Init, NoFailure
  <1>2. Records = {}
    BY <1>1 DEF Records
  <1> QED BY <1>1, <1>2, PlanLength DEF RecordInv, Items, Concluded, SealPhases,
             PreparedPhases, PlacedPhases

(* A record stays right when the job moves on, when the current item fails *)
(* and when it is finished.                                                *)
LEMMA RightAfterMove ==
    ASSUME NEW r, RecordIsRight(r), UNCHANGED <<index, results, failure>>,
           pc' \in EarlyPhases => pc \in EarlyPhases,
           pc = "returned" => pc' = "returned"
    PROVE  RecordIsRight(r)'
  BY DEF RecordIsRight, Items

LEMMA RightAfterFailure ==
    ASSUME NEW r, RecordIsRight(r), UNCHANGED <<index, results>>,
           ProgressInv, failure.error = "none", pc # "returned", pc' \notin EarlyPhases
    PROVE  RecordIsRight(r)'
  BY DEF RecordIsRight, Items, ProgressInv, NoFailure

LEMMA RightAfterPublication ==
    ASSUME TypeInv, ProgressInv, NEW r \in Record, RecordIsRight(r),
           JournalPublished, index' # index
    PROVE  RecordIsRight(r)'
  <1>1. /\ index' = index + 1 /\ index \in Nat /\ UNCHANGED failure /\ ~failure.published
        /\ failure.error = "none" /\ pc = "journalPublished" /\ r.item \in Nat
    BY ControlType, PlanLength
       DEF JournalPublished, ProgressInv, At, WorkPhases, PlacedPhases, NoFailure, Record
  <1>2. \A i \in 1 .. index - 1 : results'[i] = results[i]
    BY <1>1, ResultAdded
  <1>3. r.kind = "itemPublished" => r.item \in 1 .. index - 1
    BY <1>1 DEF RecordIsRight, JobKinds
  <1> QED BY <1>1, <1>2, <1>3 DEF RecordIsRight


(* A step that stays with its item, with or without a record.              *)
LEMMA RecordMove ==
    ASSUME TypeInv, RecordInv, UNCHANGED <<index, results, failure>>,
           UNCHANGED journal \/ \E r : Appended(r) /\ RecordIsRight(r)',
           pc' \in EarlyPhases => pc \in EarlyPhases,
           pc = "returned" => pc' = "returned",
           pc' \in PreparedPhases \cup PlacedPhases =>
              pc \in PreparedPhases \cup PlacedPhases \/ Logged("itemPrepared", index)',
           pc' = "linkData" /\ partial'[index] =>
              \/ pc = "linkData" /\ UNCHANGED partial
              \/ Logged("itemSidecarPublished", index)',
           pc' \in {"prepareManifest", "journalManifestPrepared"} =>
              pc \in {"prepareManifest", "journalManifestPrepared"} \/ Concluded',
           pc' \in SealPhases => pc \in SealPhases \/ Concluded'
    PROVE  RecordInv'
  <1>1. \A k, i : Logged(k, i) => Logged(k, i)'
    BY RecordAdded, RecordKept, TypeSplit
  <1>2. \A r \in Records' : RecordIsRight(r)'
    BY RecordAdded, RecordKept, TypeSplit, RightAfterMove DEF RecordInv
  <1>3. Len(journal') >= Len(journal) /\ Len(journal) \in Nat /\ Len(journal') \in Nat
    <2>1. CASE UNCHANGED journal
      BY <2>1, TypeSplit DEF JournalType
    <2>2. CASE \E r : Appended(r)
      BY <2>2, TypeSplit, RecordAdded
    <2> QED BY <2>1, <2>2
  <1>4. Concluded => Concluded'
    BY <1>1 DEF Concluded, Conclusion
  <1>5. \A i \in Items : i < index' => Logged("itemPrepared", i)' /\ Logged("itemPublished", i)'
    BY <1>1 DEF RecordInv
  <1>6. pc' \in PreparedPhases \cup PlacedPhases => Logged("itemPrepared", index)'
    BY <1>1 DEF RecordInv
  <1>7. pc' = "linkData" /\ partial'[index] => Logged("itemSidecarPublished", index)'
    BY <1>1 DEF RecordInv
  <1>8. pc' \in {"prepareManifest", "journalManifestPrepared"} =>
           Concluded' \/ Len(journal') >= MaxRecords
    BY <1>3, <1>4 DEF RecordInv
  <1>9. pc' \in SealPhases => Concluded'
    BY <1>4 DEF RecordInv
  <1> QED BY <1>2, <1>5, <1>6, <1>7, <1>8, <1>9 DEF RecordInv

(* An item fails without a record.  A directory that is there fails to the *)
(* manifest at once; an append can then only have met the limit.           *)
LEMMA RecordFail ==
    ASSUME TypeInv, ProgressInv, RecordInv, UNCHANGED <<index, results, journal>>,
           pc \in ItemPhases \cap WorkPhases, NEW e, NEW p \in BOOLEAN, FailItem(e, p),
           p /\ ~poisoned' => Len(journal) >= MaxRecords
    PROVE  RecordInv'
  <1>1. /\ \A k, i : Logged(k, i)' <=> Logged(k, i)
        /\ Records' = Records
    BY RecordKept
  <1>2. failure.error = "none" /\ pc # "returned"
    BY DEF ProgressInv, ItemPhases
  <1>3. pc' \in {"returned", "journalItemFailure"} \/ (pc' = "prepareManifest" /\ p /\ ~poisoned')
    BY DEF FailItem, Return, Goto
  <1>4. \A r \in Records' : RecordIsRight(r)'
    <2>1. pc' \notin EarlyPhases
      BY <1>3 DEF EarlyPhases
    <2> QED BY <1>1, <1>2, <2>1, RightAfterFailure DEF RecordInv
  <1> QED BY <1>1, <1>3, <1>4 DEF RecordInv, PreparedPhases, PlacedPhases, SealPhases

LEMMA RecordReconciliation ==
    ASSUME TypeInv, ProgressInv, RecordInv, JournalReconciliation
    PROVE  RecordInv'
  <1> PICK r : /\ r = Rec("directoryReconciliationRequired", index, here, FALSE)
               /\ Appended(r) \/ \E e \in Errors : AppendFailed(r, e)
    BY DEF JournalReconciliation
  <1>0. /\ UNCHANGED <<index, results>> /\ pc = "journalReconciliation"
        /\ FailItem("needsReconciliation", TRUE)
    BY DEF JournalReconciliation, itemVars, At
  <1>1. index \in Items /\ index \in Nat /\ index # 0 /\ failure.error = "none"
    BY <1>0, ControlType DEF ItemPhases, ProgressInv, WorkPhases, PlacedPhases
  <1>2. CASE Appended(r)
    <2>1. /\ failure'.error = "needsReconciliation" /\ failure'.published
          /\ pc' = "prepareManifest"
      BY <1>0, <1>2 DEF FailItem, Appended, Goto
    <2>2. /\ Records' = Records \cup {r}
          /\ \A k, i : Logged(k, i)' <=> Logged(k, i) \/ (r.kind = k /\ r.item = i)
      BY <1>2, TypeSplit, RecordAdded
    <2>3. RecordIsRight(r)'
      BY <1>0, <1>1, <2>1 DEF RecordIsRight, Rec, JobKinds, EarlyPhases
    <2>4. \A q \in Records : RecordIsRight(q)'
      <3>1. pc # "returned" /\ pc' \notin EarlyPhases
        BY <1>0, <2>1 DEF EarlyPhases
      <3> QED BY <1>0, <1>1, <3>1, RightAfterFailure DEF RecordInv
    <2>5. Concluded'
      BY <1>0, <1>1, <2>1, <2>2 DEF Concluded, Conclusion, Rec
    <2> QED BY <1>0, <1>1, <2>1, <2>2, <2>3, <2>4, <2>5
            DEF RecordInv, PreparedPhases, PlacedPhases, SealPhases
  <1>3. CASE \E e \in Errors : AppendFailed(r, e)
    <2>1. UNCHANGED journal /\ (~poisoned' => Len(journal) >= MaxRecords)
      BY <1>3, AppendError
    <2>2. pc \in ItemPhases \cap WorkPhases
      BY <1>0 DEF ItemPhases, WorkPhases, PlacedPhases
    <2> QED BY <1>0, <2>1, <2>2, RecordFail
  <1> QED BY <1>2, <1>3

LEMMA RecordPublication ==
    ASSUME TypeInv, ProgressInv, RecordInv, JournalPublished
    PROVE  RecordInv'
  <1> PICK r : /\ r = Rec("itemPublished", index, here, synced)
               /\ Appended(r) \/ \E e \in Errors : AppendFailed(r, e)
               /\ Appended(r) => /\ index' = index + 1 /\ UNCHANGED failure
                                 /\ pc' = "itemStart"
               /\ (\E e \in Errors : AppendFailed(r, e)) =>
                     /\ UNCHANGED <<index, results>>
                     /\ FailItem("needsReconciliation", Item.kind = "directory")
    BY AppendDone, AppendError DEF JournalPublished, Goto, AppendFailed, Appended
  <1>1. /\ pc = "journalPublished" /\ index \in Items /\ index \in Nat /\ index # 0
        /\ Items \subseteq Nat
    BY ControlType DEF JournalPublished, At, ItemPhases
  <1>2. CASE Appended(r)
    <2>1. /\ Records' = Records \cup {r}
          /\ \A k, i : Logged(k, i)' <=> Logged(k, i) \/ (r.kind = k /\ r.item = i)
      BY <1>2, TypeSplit, RecordAdded
    <2>2. RecordIsRight(r)'
      BY <1>1, <1>2, ResultAdded DEF RecordIsRight, Rec, JobKinds
    <2>3. Records \subseteq Record
      BY TypeSplit DEF Records, JournalType
    <2>4. \A q \in Records : RecordIsRight(q)'
      BY <1>1, <1>2, <2>3, RightAfterPublication DEF RecordInv
    <2>5. Logged("itemPrepared", index)
      BY <1>1 DEF RecordInv, PlacedPhases
    <2>6. r.kind = "itemPublished" /\ r.item = index
      BY DEF Rec
    <2>7. \A i \in Items : i < index' => Logged("itemPrepared", i)' /\ Logged("itemPublished", i)'
      <3> SUFFICES ASSUME NEW i \in Items, i < index'
                   PROVE  Logged("itemPrepared", i)' /\ Logged("itemPublished", i)'
        OBVIOUS
      <3>1. i < index \/ i = index
        BY <1>1, <1>2
      <3> QED BY <2>1, <2>5, <2>6, <3>1 DEF RecordInv
    <2> QED BY <1>2, <2>1, <2>2, <2>4, <2>7
            DEF RecordInv, PreparedPhases, PlacedPhases, SealPhases
  <1>3. CASE \E e \in Errors : AppendFailed(r, e)
    <2>1. UNCHANGED journal /\ (~poisoned' => Len(journal) >= MaxRecords)
      BY <1>3, AppendError
    <2>2. pc \in ItemPhases \cap WorkPhases
      BY <1>1 DEF ItemPhases, WorkPhases, PlacedPhases
    <2>3. (Item.kind = "directory") \in BOOLEAN
      OBVIOUS
    <2> QED BY <1>3, <2>1, <2>2, <2>3, RecordFail
  <1> QED BY <1>2, <1>3

(* The steps that append and stay with their item.                         *)
LEMMA RecordAppends ==
    ASSUME TypeInv, ProgressInv, RecordInv,
           \/ JournalStarted \/ JournalPrepared \/ JournalSidecar \/ PlanDirectory
           \/ JournalItemFailure \/ JournalManifestPrepared \/ JournalLinkFailure
           \/ JournalManifestPublished \/ JournalTerminal
    PROVE  RecordInv'
  <1> USE DEF At, Goto, Return, EarlyPhases, PreparedPhases, PlacedPhases, SealPhases
  <1>0. \A r, k, i : Appended(r) => (Logged(k, i)' <=> Logged(k, i) \/ (r.kind = k /\ r.item = i))
    BY TypeSplit, RecordAdded
  <1>1. CASE JournalStarted
    <2>1. PICK r : /\ r = Rec("jobStarted", 0, NoLocation, FALSE)
                   /\ \/ Appended(r) /\ pc' = "itemStart"
                      \/ \E e \in Errors : AppendFailed(r, e) /\ pc' = "returned"
      BY <1>1 DEF JournalStarted
    <2>2. UNCHANGED <<index, results, failure, partial>> /\ pc = "journalStarted"
          /\ index # 0
      BY <1>1, ControlType DEF JournalStarted, itemVars, reportVars
    <2>3. RecordIsRight(r)'
      BY <2>1, <2>2, ControlType DEF RecordIsRight, Rec, JobKinds
    <2>4. UNCHANGED journal \/ Appended(r)
      BY <2>1, AppendError
    <2> QED BY <2>1, <2>2, <2>3, <2>4, RecordMove
  <1>2. CASE JournalPrepared \/ PlanDirectory
    <2>1. PICK r : /\ r.item = index
                   /\ pc = "journalPrepared" => r.kind = "itemPrepared"
                   /\ pc # "journalPrepared" =>
                         r.kind = "directoryPublicationPlanned" /\ pc = "planDirectory"
                   /\ \/ /\ Appended(r)
                         /\ pc' \in {"linkSidecar", "linkData", "planDirectory", "createDirectory"}
                         /\ pc' = "linkData" => pc = "journalPrepared" /\ ~partial[index]
                         /\ UNCHANGED failure
                      \/ \E e \in Errors : AppendFailed(r, e) /\ FailItem(e, FALSE)
      BY <1>2 DEF JournalPrepared, PlanDirectory, Rec
    <2>0. index # 0 /\ index \in Nat
      BY ControlType
    <2>2. /\ UNCHANGED <<index, results, partial>> /\ pc \in ItemPhases \cap WorkPhases
          /\ index # 0 /\ index \in Nat
      BY <1>2, <2>0 DEF JournalPrepared, PlanDirectory, itemVars, ItemPhases, WorkPhases
    <2>3. CASE Appended(r) /\ UNCHANGED failure
               /\ pc' \in {"linkSidecar", "linkData", "planDirectory", "createDirectory"}
               /\ (pc' = "linkData" => pc = "journalPrepared" /\ ~partial[index])
      <3>1. RecordIsRight(r)'
        BY <2>1, <2>2, <2>3 DEF RecordIsRight, JobKinds
      <3>2. pc # "journalPrepared" => Logged("itemPrepared", index)
        BY <2>1 DEF RecordInv
      <3>3. Logged("itemPrepared", index)'
        <4>1. Logged("itemPrepared", index) \/ (r.kind = "itemPrepared" /\ r.item = index)
          BY <2>1, <3>2
        <4> QED BY <1>0, <2>2, <2>3, <4>1
      <3> QED BY <2>2, <2>3, <3>1, <3>3, RecordMove DEF ItemPhases
    <2>4. CASE \E e \in Errors : AppendFailed(r, e) /\ FailItem(e, FALSE)
      <3>1. UNCHANGED journal
        BY <2>4, AppendError
      <3> QED BY <2>2, <2>4, <3>1, RecordFail
    <2> QED BY <2>1, <2>3, <2>4
  <1>3. CASE JournalSidecar
    <2>1. PICK r : /\ r.item = index /\ r.kind = "itemSidecarPublished"
                   /\ \/ Appended(r) /\ pc' = "linkData" /\ UNCHANGED failure
                      \/ /\ \E e \in Errors : AppendFailed(r, e)
                         /\ FailItem("needsReconciliation", FALSE)
      BY <1>3 DEF JournalSidecar, Rec
    <2>2. /\ UNCHANGED <<index, results>> /\ pc \in ItemPhases \cap WorkPhases
          /\ index # 0 /\ index \in Nat /\ pc = "journalSidecar"
      BY <1>3, ControlType DEF JournalSidecar, ItemPhases, WorkPhases
    <2>3. CASE Appended(r) /\ pc' = "linkData" /\ UNCHANGED failure
      <3>1. RecordIsRight(r)'
        BY <2>1, <2>2, <2>3 DEF RecordIsRight, JobKinds
      <3>2. Logged("itemSidecarPublished", index)'
        BY <1>0, <2>1, <2>2, <2>3
      <3> QED BY <2>2, <2>3, <3>1, <3>2, RecordMove
    <2>4. CASE /\ \E e \in Errors : AppendFailed(r, e)
               /\ FailItem("needsReconciliation", FALSE)
      <3>1. UNCHANGED journal
        BY <2>4, AppendError
      <3> QED BY <2>2, <2>4, <3>1, RecordFail
    <2> QED BY <2>1, <2>3, <2>4
  <1>4. CASE JournalItemFailure
    <2>1. PICK r : /\ r.item = index
                   /\ r.kind = IF failure.error = "cancelled" THEN "itemCancelled" ELSE "itemFailed"
                   /\ \/ Appended(r) /\ pc' = "prepareManifest"
                      \/ (\E e \in Errors : AppendFailed(r, e)) /\ pc' = "returned"
      BY <1>4 DEF JournalItemFailure, Rec
    <2>2. /\ UNCHANGED <<index, results, failure, partial>> /\ pc = "journalItemFailure"
          /\ index # 0 /\ index \in Nat /\ failure.error # "none" /\ ~failure.published
      BY <1>4, ControlType DEF JournalItemFailure, ItemPhases, ProgressInv, itemVars, reportVars
    <2>3. RecordIsRight(r)'
      BY <2>1, <2>2 DEF RecordIsRight, JobKinds
    <2>4. Appended(r) => Concluded'
      BY <1>0, <2>1, <2>2 DEF Concluded, Conclusion
    <2>5. UNCHANGED journal \/ Appended(r)
      BY <2>1, AppendError
    <2> QED BY <2>1, <2>2, <2>3, <2>4, <2>5, RecordMove
  <1>5. CASE JournalManifestPrepared \/ JournalLinkFailure
    <2>1. PICK r : /\ r.item = 0 /\ r.kind \in {"manifestPrepared", "jobFailed"}
                   /\ \/ Appended(r) /\ pc' \in {"linkManifest", "returned"}
                      \/ (\E e \in Errors : AppendFailed(r, e)) /\ pc' = "returned"
      BY <1>5 DEF JournalManifestPrepared, JournalLinkFailure, Rec
    <2>0. index # 0 /\ index \in Nat
      BY ControlType
    <2>2. /\ UNCHANGED <<index, results, failure, partial>> /\ index # 0 /\ index \in Nat
          /\ pc \in {"journalManifestPrepared", "journalLinkFailure"}
      BY <1>5, <2>0 DEF JournalManifestPrepared, JournalLinkFailure, itemVars, reportVars
    <2>3. RecordIsRight(r)'
      BY <2>1, <2>2 DEF RecordIsRight, JobKinds
    <2>4. pc = "journalManifestPrepared" /\ Appended(r) => Concluded'
      BY <1>0, <2>2, AppendDone, TypeSplit DEF Concluded, Conclusion, RecordInv, JournalType
    <2>5. UNCHANGED journal \/ Appended(r)
      BY <2>1, AppendError
    <2> QED BY <2>1, <2>2, <2>3, <2>4, <2>5, RecordMove
  <1>6. CASE JournalManifestPublished
    <2>1. PICK r : /\ r.item = 0 /\ r.kind = "manifestPublished" /\ r.at = ManifestAt
                   /\ \/ Appended(r) /\ pc' = "journalTerminal"
                      \/ (\E e \in Errors : AppendFailed(r, e)) /\ pc' = "returned"
      BY <1>6 DEF JournalManifestPublished, Rec
    <2>2. /\ UNCHANGED <<index, results, failure, partial>> /\ index # 0 /\ index \in Nat
          /\ pc = "journalManifestPublished"
      BY <1>6, ControlType DEF JournalManifestPublished, itemVars, reportVars
    <2>3. RecordIsRight(r)'
      BY <2>1, <2>2 DEF RecordIsRight, JobKinds
    <2>5. UNCHANGED journal \/ Appended(r)
      BY <2>1, AppendError
    <2> QED BY <2>1, <2>2, <2>3, <2>5, RecordMove
  <1>7. CASE JournalTerminal
    <2>1. PICK r : /\ r.item = 0
                   /\ r.kind \in {"jobCompleted", "jobCancelled", "jobFailed"}
                   /\ r.kind = "jobCompleted" => failure.error = "none"
                   /\ r.durable => AllDurable
                   /\ Appended(r) \/ (\E e \in Errors : AppendFailed(r, e))
                   /\ pc' = "returned"
      <3> DEFINE r == Rec(CASE failure.error = "none"      -> "jobCompleted"
                            [] failure.error = "cancelled" -> "jobCancelled"
                            [] OTHER                       -> "jobFailed",
                          0, NoLocation, failure.error = "none" /\ AllDurable)
      <3>1. /\ Appended(r) \/ (\E e \in Errors : AppendFailed(r, e))
            /\ pc' = "returned"
        BY <1>7 DEF JournalTerminal
      <3>2. /\ r.item = 0 /\ r.kind \in {"jobCompleted", "jobCancelled", "jobFailed"}
            /\ r.kind = "jobCompleted" => failure.error = "none"
            /\ r.durable => AllDurable
        BY DEF Rec
      <3> QED BY <3>1, <3>2
    <2>2. /\ UNCHANGED <<index, results, failure, partial>> /\ index # 0 /\ index \in Nat
          /\ pc = "journalTerminal"
          /\ failure.error = "none" => index = Len(Plan) + 1
      BY <1>7, ControlType DEF JournalTerminal, itemVars, reportVars, ProgressInv,
         ManifestPhases
    <2>3. AllDurable /\ index = Len(Plan) + 1 => \A i \in Items : results[i].durable
      <3>1. index = Len(Plan) + 1 => DOMAIN results = Items
        BY TypeSplit, ControlType DEF ResultsType, ProgressInv
      <3> QED BY <3>1 DEF AllDurable
    <2>4. RecordIsRight(r)'
      BY <2>1, <2>2, <2>3 DEF RecordIsRight, JobKinds
    <2>5. UNCHANGED journal \/ Appended(r)
      BY <2>1, AppendError
    <2> QED BY <2>1, <2>2, <2>4, <2>5, RecordMove
  <1> QED BY <1>1, <1>2, <1>3, <1>4, <1>5, <1>6, <1>7

LEMMA RecordNext ==
    ASSUME TypeInv, ProgressInv, RecordInv, [Next]_vars
    PROVE  RecordInv'
  <1> USE DEF At, Goto, Return, EarlyPhases, PreparedPhases, PlacedPhases, SealPhases
  <1>1. CASE OpenParents \/ Stream \/ LinkSidecar \/ LinkData \/ CreateDirectory
    <2>1. /\ UNCHANGED <<index, results, journal>> /\ pc \in ItemPhases \cap WorkPhases
          /\ pc # "stream" => UNCHANGED partial
      BY <1>1 DEF OpenParents, Stream, LinkSidecar, LinkData, CreateDirectory, itemVars,
         journalVars, ItemPhases, WorkPhases
    <2>2. \/ /\ UNCHANGED failure
             /\ \/ /\ pc \in {"openParents", "stream"}
                   /\ pc' \in {"stream", "journalPrepared"}
                \/ pc = "linkSidecar" /\ pc' \in {"linkSidecar", "syncSidecar"}
                \/ pc = "linkData" /\ pc' \in {"linkData", "syncData"}
                \/ pc = "createDirectory" /\ pc' \in {"planDirectory", "bindDirectory"}
          \/ \E e \in Errors : FailItem(e, FALSE)
      BY <1>1 DEF OpenParents, Stream, LinkSidecar, LinkData, CreateDirectory, NextName, Errors
    <2>3. CASE \E e \in Errors : FailItem(e, FALSE)
      BY <2>1, <2>3, RecordFail
    <2>4. CASE ~ \E e \in Errors : FailItem(e, FALSE)
      BY <2>1, <2>2, <2>4, RecordMove
    <2> QED BY <2>3, <2>4
  <1>2. CASE SyncSidecar \/ BindDirectory \/ SyncData
    BY <1>2, RecordMove DEF SyncSidecar, BindDirectory, SyncData, journalVars, reportVars
  <1>3. CASE ItemStart
    <2>1. /\ UNCHANGED <<index, results, journal>> /\ pc = "itemStart"
          /\ pc' \in {"openParents", "journalItemFailure"} /\ failure.error = "none"
          /\ pc' = "openParents" => UNCHANGED failure
      BY <1>3 DEF ItemStart, journalVars, ProgressInv, WorkPhases
    <2>2. CASE pc' = "openParents"
      BY <2>1, <2>2, RecordMove
    <2>3. CASE pc' = "journalItemFailure"
      <3>1. /\ \A k, i : Logged(k, i)' <=> Logged(k, i)
            /\ Records' = Records
        BY <2>1, RecordKept
      <3>2. \A r \in Records' : RecordIsRight(r)'
        BY <2>1, <2>3, <3>1, RightAfterFailure DEF RecordInv
      <3> QED BY <2>1, <2>3, <3>1, <3>2 DEF RecordInv
    <2> QED BY <2>1, <2>2, <2>3
  <1>4. CASE CreateJob \/ ItemsDone \/ PrepareManifest \/ LinkManifest \/ SyncManifest
    <2>1. /\ UNCHANGED <<index, results, failure, journal, partial>>
          /\ \/ pc = "createJob" /\ pc' \in {"journalStarted", "returned"}
             \/ pc = "itemStart" /\ pc' = "prepareManifest"
             \/ pc = "prepareManifest" /\ pc' \in {"journalManifestPrepared", "returned"}
             \/ pc = "linkManifest" /\ pc' \in SealPhases \cup {"returned"}
             \/ pc = "syncManifest" /\ pc' = "journalManifestPublished"
      BY <1>4 DEF CreateJob, ItemsDone, PrepareManifest, LinkManifest, SyncManifest,
         itemVars, journalVars, reportVars
    <2>2. pc = "itemStart" => Concluded'
      BY <2>1 DEF ProgressInv, WorkPhases, Concluded
    <2> QED BY <2>1, <2>2, RecordMove
  <1>5. CASE RequestCancel \/ ForeignCreate \/ Crash \/ PowerLoss \/ UNCHANGED vars
    BY <1>5, RecordMove DEF RequestCancel, ForeignCreate, Crash, PowerLoss, vars,
       itemVars, journalVars, reportVars
  <1> QED BY <1>1, <1>2, <1>3, <1>4, <1>5, RecordAppends, RecordReconciliation,
             RecordPublication DEF Next, WorkerStep, ItemStep, ManifestStep

-----------------------------------------------------------------------------
(* What a step does to the names.                                          *)
Kept(l)  == /\ tree'[l].kind = tree[l].kind /\ tree'[l].owner = tree[l].owner
            /\ tree[l].durable => tree'[l].durable
Lost(l)  == power' = "lost" /\ ~tree[l].durable /\ tree'[l] = NoEntry
Other(l) == /\ Free(l) /\ tree'[l].owner = 0
            /\ tree'[l].kind \in {"parent", "foreignFile", "foreignDirectory"}
Calm     == \A l \in Locations : Kept(l) \/ Lost(l) \/ Other(l)

Added(l, k, i) == l \in Locations /\ Free(l) /\ Place(l, New(k, i))

LEMMA AddedShape ==
    ASSUME TypeInv, NEW l, NEW k, NEW i, Added(l, k, i)
    PROVE  /\ tree'[l].kind = k /\ tree'[l].owner = i
           /\ \A m \in Locations \ {l} : tree'[m] = tree[m]
           /\ tree[l].kind = "none" /\ l \in Locations
  BY TypeSplit DEF Added, Place, New, TreeType, Free

LEMMA CalmShapes ==
    ASSUME TypeInv,
           \/ UNCHANGED tree
           \/ \E d : \E ok \in BOOLEAN : SyncParent(d, ok)
           \/ \E l : \E k \in {"parent", "foreignFile", "foreignDirectory"} : Added(l, k, 0)
           \/ PowerLoss
    PROVE  Calm
  <1>1. CASE UNCHANGED tree
    BY <1>1 DEF Calm, Kept
  <1>2. CASE \E d : \E ok \in BOOLEAN : SyncParent(d, ok)
    <2>1. ASSUME NEW l \in Locations PROVE Kept(l)
      BY <1>2, TypeSplit DEF Kept, SyncParent, TreeType, Entry
    <2> QED BY <2>1 DEF Calm
  <1>3. CASE \E l : \E k \in {"parent", "foreignFile", "foreignDirectory"} : Added(l, k, 0)
    BY <1>3, AddedShape DEF Calm, Kept, Other, Free
  <1>4. CASE PowerLoss
    BY <1>4 DEF PowerLoss, Calm, Kept, Lost
  <1> QED BY <1>1, <1>2, <1>3, <1>4

LEMMA ParentCandidate ==
    ASSUME TypeInv, pc \in ItemPhases
    PROVE  /\ Candidate(Item.base) \in {Item.dir} \X Names
           /\ Candidate(Item.sidecar) \in {Item.dir} \X Names
           /\ {Item.dir} \X Names \subseteq Locations
  <1>1. Item \in PlanItem /\ attempt \in 0 .. MaxAttempts - 1
    BY ControlType, TypeSplit DEF ItemVarsType
  <1>2. Item.base \in Names /\ Item.sidecar \in Names /\ Item.dir \in Directories
    BY <1>1 DEF PlanItem
  <1>3. CollisionName[Item.base, attempt] \in Names /\ CollisionName[Item.sidecar, attempt] \in Names
    BY <1>1, <1>2
  <1> QED BY <1>2, <1>3 DEF Candidate, Locations

LEMMA LocationFacts ==
    ManifestAt \in Locations /\ NoLocation \notin Locations /\ ManifestAt[1] = Root
  BY DEF ManifestAt, Locations, Directories, NoLocation

(* A step that adds a name of an item or of the manifest is the one of     *)
(* four that links or creates it.                                          *)
LEMMA TreeSteps ==
    ASSUME TypeInv, [Next]_vars
    PROVE  /\ power = "lost" => power' = "lost"
           /\ \/ Calm
              \/ /\ LinkSidecar /\ pc' = "syncSidecar"
                 /\ sidecar' = Candidate(Item.sidecar) /\ UNCHANGED failure
                 /\ Added(sidecar', "sidecar", index)
              \/ /\ LinkData /\ pc' = "syncData" /\ here' = Candidate(Item.base)
                 /\ UNCHANGED failure /\ Added(here', "data", index)
              \/ /\ CreateDirectory /\ pc' = "bindDirectory"
                 /\ here' = Candidate(Item.base)
                 /\ UNCHANGED failure /\ Added(here', "directory", index)
              \/ /\ LinkManifest /\ pc' = "syncManifest"
                 /\ Added(ManifestAt, "manifest", 0)
  <1>0. power = "lost" => power' = "lost"
    BY DEF Next, WorkerStep, ItemStep, ManifestStep, CreateJob, JournalStarted, ItemStart,
       OpenParents, Stream, JournalPrepared, LinkSidecar, SyncSidecar, JournalSidecar,
       LinkData, PlanDirectory, CreateDirectory, BindDirectory, JournalReconciliation,
       SyncData, JournalPublished, JournalItemFailure, ItemsDone, PrepareManifest,
       JournalManifestPrepared, LinkManifest, JournalLinkFailure, SyncManifest,
       JournalManifestPublished, JournalTerminal, RequestCancel, ForeignCreate, Crash,
       PowerLoss, vars, envVars, At
  <1>1. CASE OpenParents
    <2>1. pc \in ItemPhases /\ (Item.dir # Root => <<Root, Item.dir>> \in Locations)
      <3>1. pc \in ItemPhases
        BY <1>1 DEF OpenParents, At, ItemPhases
      <3>2. Item.dir \in Directories
        BY <3>1, ControlType DEF PlanItem
      <3> QED BY <3>1, <3>2 DEF Directories, Locations
    <2>2. UNCHANGED tree \/ (Item.dir # Root /\ Free(<<Root, Item.dir>>)
                               /\ Place(<<Root, Item.dir>>, New("parent", 0)))
      BY <1>1 DEF OpenParents
    <2>3. UNCHANGED tree \/ Added(<<Root, Item.dir>>, "parent", 0)
      BY <2>1, <2>2 DEF Added
    <2> QED BY <1>0, <2>3, CalmShapes
  <1>2. CASE SyncSidecar \/ SyncData \/ SyncManifest
    <2>1. \E d : \E ok \in BOOLEAN : SyncParent(d, ok)
      BY <1>2 DEF SyncSidecar, SyncData, SyncManifest
    <2> QED BY <1>0, <2>1, CalmShapes
  <1>3. CASE LinkSidecar
    <2>1. Candidate(Item.sidecar) \in Locations
      BY <1>3, ParentCandidate DEF LinkSidecar, At, ItemPhases
    <2>2. \/ UNCHANGED tree
          \/ /\ Free(Candidate(Item.sidecar))
             /\ Place(Candidate(Item.sidecar), New("sidecar", index))
             /\ sidecar' = Candidate(Item.sidecar) /\ pc' = "syncSidecar"
             /\ UNCHANGED failure
      BY <1>3 DEF LinkSidecar, NextName, Goto
    <2> QED BY <1>0, <1>3, <2>1, <2>2, CalmShapes DEF Added
  <1>4. CASE LinkData
    <2>1. Candidate(Item.base) \in Locations
      BY <1>4, ParentCandidate DEF LinkData, At, ItemPhases
    <2>2. \/ UNCHANGED tree
          \/ /\ Free(Candidate(Item.base))
             /\ Place(Candidate(Item.base), New("data", index))
             /\ here' = Candidate(Item.base) /\ pc' = "syncData"
             /\ UNCHANGED failure
      BY <1>4 DEF LinkData, NextName, Goto
    <2> QED BY <1>0, <1>4, <2>1, <2>2, CalmShapes DEF Added
  <1>5. CASE CreateDirectory
    <2>1. Candidate(Item.base) \in Locations
      BY <1>5, ParentCandidate DEF CreateDirectory, At, ItemPhases
    <2>2. \/ UNCHANGED tree
          \/ /\ Free(Candidate(Item.base))
             /\ Place(Candidate(Item.base), New("directory", index))
             /\ here' = Candidate(Item.base) /\ pc' = "bindDirectory"
             /\ UNCHANGED failure
      BY <1>5 DEF CreateDirectory, NextName, Goto
    <2> QED BY <1>0, <1>5, <2>1, <2>2, CalmShapes DEF Added
  <1>6. CASE LinkManifest
    <2>1. \/ UNCHANGED tree
          \/ Added(ManifestAt, "manifest", 0) /\ pc' = "syncManifest"
      BY <1>6, LocationFacts DEF LinkManifest, Goto, Added
    <2> QED BY <1>0, <1>6, <2>1, CalmShapes
  <1>7. CASE ForeignCreate
    <2>1. \E l : \E k \in {"parent", "foreignFile", "foreignDirectory"} : Added(l, k, 0)
      BY <1>7 DEF ForeignCreate, Added
    <2> QED BY <1>0, <2>1, CalmShapes
  <1>8. CASE PowerLoss
    BY <1>0, <1>8, CalmShapes
  <1>9. CASE UNCHANGED tree
    BY <1>0, <1>9, CalmShapes
  <1>10. \/ UNCHANGED tree
         \/ OpenParents \/ SyncSidecar \/ SyncData \/ SyncManifest \/ LinkSidecar \/ LinkData
         \/ CreateDirectory \/ LinkManifest \/ ForeignCreate \/ PowerLoss
    BY DEF Next, WorkerStep, ItemStep, ManifestStep, CreateJob, JournalStarted, ItemStart,
       Stream, JournalPrepared, JournalSidecar,
       PlanDirectory, BindDirectory, JournalReconciliation,
       JournalPublished, JournalItemFailure, ItemsDone, PrepareManifest,
       JournalManifestPrepared, JournalLinkFailure,
       JournalManifestPublished, JournalTerminal, RequestCancel, Crash, vars
  <1> QED BY <1>1, <1>2, <1>3, <1>4, <1>5, <1>6, <1>7, <1>8, <1>9, <1>10

(* What a step adds to the journal.                                        *)
LEMMA JournalSteps ==
    ASSUME TypeInv, [Next]_vars
    PROVE  UNCHANGED journal \/ \E r : Appended(r)
  BY Zenon DEF Next, WorkerStep, ItemStep, ManifestStep, CreateJob, JournalStarted, ItemStart,
       OpenParents, Stream, JournalPrepared, LinkSidecar, SyncSidecar, JournalSidecar,
       LinkData, PlanDirectory, CreateDirectory, BindDirectory, JournalReconciliation,
       SyncData, JournalPublished, JournalItemFailure, ItemsDone, PrepareManifest,
       JournalManifestPrepared, LinkManifest, JournalLinkFailure, SyncManifest,
       JournalManifestPublished, JournalTerminal, RequestCancel, ForeignCreate, Crash,
       PowerLoss, vars, journalVars, AppendFailed

-----------------------------------------------------------------------------
(* The manifest is linked last, when a failed item has its record.         *)
LinkedInv ==
    ManifestLinked =>
       /\ pc \in {"syncManifest", "journalManifestPublished", "journalTerminal", "returned"}
       /\ Concluded
       /\ failure.error = "none" => index = Len(Plan) + 1

LEMMA LinkedInit == Init => LinkedInv
  BY LocationFacts DEF Init, LinkedInv, ManifestLinked, NoEntry

LEMMA LinkedNext ==
    ASSUME TypeInv, ProgressInv, RecordInv, LinkedInv, [Next]_vars
    PROVE  LinkedInv'
  <1>1. CASE LinkManifest
    <2>1. UNCHANGED <<index, failure, journal>> /\ pc = "linkManifest"
      BY <1>1 DEF LinkManifest, itemVars, reportVars, journalVars, At
    <2>2. Concluded'
      BY <2>1, RecordKept DEF RecordInv, SealPhases, Concluded, Conclusion
    <2>3. ManifestLinked' => pc' = "syncManifest"
      BY <1>1, <2>1 DEF LinkedInv, LinkManifest, ManifestLinked, Goto, Return, ManifestAt
    <2>4. failure'.error = "none" => index' = Len(Plan) + 1
      BY <2>1 DEF ProgressInv, ManifestPhases, SealPhases
    <2> QED BY <2>2, <2>3, <2>4 DEF LinkedInv
  <1>2. CASE ManifestLinked' /\ ~LinkManifest
    <2>1. ManifestLinked
      <3>1. CASE Calm
        BY <1>2, <3>1, LocationFacts DEF Calm, ManifestLinked, Kept, Lost, Other, NoEntry,
           ManifestAt
      <3>2. CASE \E l, i : \E k \in {"sidecar", "data", "directory"} : Added(l, k, i)
        BY <1>2, <3>2, AddedShape, LocationFacts DEF ManifestLinked, ManifestAt
      <3> QED BY <1>2, <3>1, <3>2, TreeSteps
    <2>2. /\ pc \in {"syncManifest", "journalManifestPublished", "journalTerminal", "returned"}
          /\ Concluded /\ (failure.error = "none" => index = Len(Plan) + 1)
      BY <2>1 DEF LinkedInv
    <2>3. /\ UNCHANGED <<index, failure>>
          /\ pc' \in {"syncManifest", "journalManifestPublished", "journalTerminal", "returned"}
      <3>1. SyncManifest \/ JournalManifestPublished \/ JournalTerminal \/ RequestCancel
            \/ ForeignCreate \/ Crash \/ PowerLoss \/ UNCHANGED vars
        BY <2>2 DEF Next, WorkerStep, ItemStep, ManifestStep, CreateJob, JournalStarted,
           ItemStart, OpenParents, Stream, JournalPrepared, LinkSidecar, SyncSidecar,
           JournalSidecar, LinkData, PlanDirectory, CreateDirectory, BindDirectory,
           JournalReconciliation, SyncData, JournalPublished, JournalItemFailure,
           ItemsDone, PrepareManifest, JournalManifestPrepared, LinkManifest,
           JournalLinkFailure, At
      <3> QED BY <2>2, <3>1 DEF SyncManifest, JournalManifestPublished, JournalTerminal,
              RequestCancel, ForeignCreate, Crash, PowerLoss, vars, itemVars, reportVars,
              Goto, Return
    <2>4. \A k, i : Logged(k, i) => Logged(k, i)'
      BY JournalSteps, RecordAdded, RecordKept, TypeSplit
    <2> QED BY <2>2, <2>3, <2>4 DEF LinkedInv, Concluded, Conclusion
  <1> QED BY <1>1, <1>2 DEF LinkedInv

-----------------------------------------------------------------------------
(* What the engine itself placed is there, and synchronized as it noted.   *)
Holds(l, k, i, durable) ==
    IF durable THEN Shows(l, k, i) /\ tree[l].durable
    ELSE Shows(l, k, i) \/ power = "lost"

Final(i) == IF Plan[i].kind = "file" THEN "data" ELSE "directory"

PlaceInv ==
    /\ pc \in {"syncSidecar", "journalSidecar"} =>
          /\ sidecar \in {Item.dir} \X Names
          /\ Holds(sidecar, "sidecar", index, pc = "journalSidecar" /\ synced)
    /\ pc \in PlacedPhases =>
          /\ here \in {Item.dir} \X Names
          /\ Holds(here, Final(index), index, pc = "journalPublished" /\ synced)
    /\ failure.published => here \in Locations /\ Holds(here, "directory", index, FALSE)
    /\ pc \in {"syncManifest", "journalManifestPublished", "journalTerminal"} =>
          Holds(ManifestAt, "manifest", 0, pc # "syncManifest" /\ synced)
    /\ returned = "ok" => Holds(ManifestAt, "manifest", 0, FALSE)

LEMMA PlaceInit == Init => PlaceInv
  BY DEF Init, PlaceInv, PlacedPhases, NoFailure

(* Nothing is removed or replaced: what is there stays, but for a power    *)
(* loss of what was not synchronized.                                      *)
LEMMA HoldsOn ==
    ASSUME TypeInv, [Next]_vars, NEW l \in Locations,
           NEW k \in {"sidecar", "data", "directory", "manifest"}, NEW i,
           NEW d \in BOOLEAN, Holds(l, k, i, d)
    PROVE  Holds(l, k, i, d)'
  <1>1. power = "lost" => power' = "lost"
    BY TreeSteps
  <1>2. tree[l].kind # "none" => Kept(l) \/ Lost(l)
    <2>1. CASE Calm
      BY <2>1 DEF Calm, Other, Free
    <2>2. CASE \E m, j : \E q \in {"sidecar", "data", "directory", "manifest"} : Added(m, q, j)
      BY <2>2, AddedShape DEF Kept
    <2> QED BY <2>1, <2>2, TreeSteps
  <1> QED BY <1>1, <1>2 DEF Holds, Shows, Kept, Lost

LEMMA SyncHolds ==
    ASSUME TypeInv, NEW l \in Locations, NEW k \in {"sidecar", "data", "directory", "manifest"},
           NEW i, NEW ok \in BOOLEAN, NEW d, l[1] = d, SyncParent(d, ok), power = "on",
           Holds(l, k, i, FALSE)
    PROVE  Holds(l, k, i, ok)'
  <1>1. tree[l] \in Entry /\ tree[l].kind = k /\ tree[l].owner = i
    BY TypeSplit DEF TreeType, Holds, Shows
  <1>2. tree'[l] = IF ok THEN [tree[l] EXCEPT !.durable = TRUE] ELSE tree[l]
    BY <1>1 DEF SyncParent, Free
  <1> QED BY <1>1, <1>2 DEF Holds, Shows, Entry

(* Which step enters a phase.                                              *)
FailedPhases == {"returned", "journalItemFailure", "prepareManifest"}
Ends == returned' \in {returned} \cup Errors

LEMMA FailTargets ==
    ASSUME NEW e \in Errors, NEW p, FailItem(e, p)
    PROVE  pc' \in FailedPhases /\ Ends
  BY DEF FailItem, Goto, Return, FailedPhases, Ends

LEMMA StepTargets ==
    /\ CreateJob => pc' \in {"journalStarted", "returned"} /\ Ends
    /\ JournalStarted => pc' \in {"itemStart", "returned"} /\ Ends
    /\ ItemStart => pc' \in {"openParents", "journalItemFailure"} /\ Ends
    /\ OpenParents => pc' \in {"stream", "journalPrepared"} \cup FailedPhases /\ Ends
    /\ Stream => pc' \in {"journalPrepared"} \cup FailedPhases /\ Ends
    /\ JournalPrepared => pc' \in {"planDirectory", "linkSidecar", "linkData"} \cup FailedPhases /\ Ends
    /\ LinkSidecar => pc' \in {"syncSidecar", "linkSidecar"} \cup FailedPhases /\ Ends
    /\ SyncSidecar => pc' \in {"journalSidecar"} /\ Ends
    /\ JournalSidecar => pc' \in {"linkData"} \cup FailedPhases /\ Ends
    /\ LinkData => pc' \in {"linkData", "syncData"} \cup FailedPhases /\ Ends
    /\ PlanDirectory => pc' \in {"createDirectory"} \cup FailedPhases /\ Ends
    /\ CreateDirectory => pc' \in {"planDirectory", "bindDirectory"} \cup FailedPhases /\ Ends
    /\ BindDirectory => pc' \in {"syncData", "journalReconciliation"} /\ Ends
    /\ JournalReconciliation => pc' \in FailedPhases /\ Ends
    /\ SyncData => pc' \in {"journalPublished"} /\ Ends
    /\ JournalPublished => pc' \in {"itemStart"} \cup FailedPhases /\ Ends
    /\ JournalItemFailure => pc' \in {"prepareManifest", "returned"} /\ Ends
    /\ ItemsDone => pc' \in {"prepareManifest"} /\ Ends
    /\ PrepareManifest => pc' \in {"journalManifestPrepared", "returned"} /\ Ends
    /\ JournalManifestPrepared => pc' \in {"linkManifest", "returned"} /\ Ends
    /\ LinkManifest => pc' \in {"syncManifest", "journalLinkFailure", "returned"} /\ Ends
    /\ JournalLinkFailure => pc' \in {"returned"} /\ Ends
    /\ SyncManifest => pc' \in {"journalManifestPublished"} /\ Ends
    /\ JournalManifestPublished => pc' \in {"journalTerminal", "returned"} /\ Ends
  <1> USE DEF Goto, Return, Ends, Errors
  <1>1. CreateJob => pc' \in {"journalStarted", "returned"} /\ Ends
    BY DEF CreateJob
  <1>2. JournalStarted => pc' \in {"itemStart", "returned"} /\ Ends
    BY DEF JournalStarted
  <1>3. ItemStart => pc' \in {"openParents", "journalItemFailure"} /\ Ends
    BY DEF ItemStart
  <1>4. OpenParents => pc' \in {"stream", "journalPrepared"} \cup FailedPhases /\ Ends
    BY FailTargets DEF OpenParents
  <1>5. Stream => pc' \in {"journalPrepared"} \cup FailedPhases /\ Ends
    BY FailTargets DEF Stream
  <1>6. JournalPrepared => pc' \in {"planDirectory", "linkSidecar", "linkData"} \cup FailedPhases /\ Ends
    BY FailTargets DEF JournalPrepared
  <1>7. LinkSidecar => pc' \in {"syncSidecar", "linkSidecar"} \cup FailedPhases /\ Ends
    BY FailTargets DEF LinkSidecar, NextName
  <1>8. SyncSidecar => pc' \in {"journalSidecar"} /\ Ends
    BY DEF SyncSidecar
  <1>9. JournalSidecar => pc' \in {"linkData"} \cup FailedPhases /\ Ends
    BY FailTargets DEF JournalSidecar
  <1>10. LinkData => pc' \in {"linkData", "syncData"} \cup FailedPhases /\ Ends
    BY FailTargets DEF LinkData, NextName
  <1>11. PlanDirectory => pc' \in {"createDirectory"} \cup FailedPhases /\ Ends
    BY FailTargets DEF PlanDirectory
  <1>12. CreateDirectory => pc' \in {"planDirectory", "bindDirectory"} \cup FailedPhases /\ Ends
    BY FailTargets DEF CreateDirectory, NextName
  <1>13. BindDirectory => pc' \in {"syncData", "journalReconciliation"} /\ Ends
    BY DEF BindDirectory
  <1>14. JournalReconciliation => pc' \in FailedPhases /\ Ends
    BY FailTargets DEF JournalReconciliation
  <1>15. SyncData => pc' \in {"journalPublished"} /\ Ends
    BY DEF SyncData
  <1>16. JournalPublished => pc' \in {"itemStart"} \cup FailedPhases /\ Ends
    BY FailTargets DEF JournalPublished
  <1>17. JournalItemFailure => pc' \in {"prepareManifest", "returned"} /\ Ends
    BY DEF JournalItemFailure
  <1>18. ItemsDone => pc' \in {"prepareManifest"} /\ Ends
    BY DEF ItemsDone
  <1>19. PrepareManifest => pc' \in {"journalManifestPrepared", "returned"} /\ Ends
    BY DEF PrepareManifest
  <1>20. JournalManifestPrepared => pc' \in {"linkManifest", "returned"} /\ Ends
    BY DEF JournalManifestPrepared
  <1>21. LinkManifest => pc' \in {"syncManifest", "journalLinkFailure", "returned"} /\ Ends
    BY DEF LinkManifest
  <1>22. JournalLinkFailure => pc' \in {"returned"} /\ Ends
    BY DEF JournalLinkFailure
  <1>23. SyncManifest => pc' \in {"journalManifestPublished"} /\ Ends
    BY DEF SyncManifest
  <1>24. JournalManifestPublished => pc' \in {"journalTerminal", "returned"} /\ Ends
    BY DEF JournalManifestPublished
  <1> QED BY <1>1, <1>2, <1>3, <1>4, <1>5, <1>6, <1>7, <1>8, <1>9, <1>10, <1>11, <1>12, <1>13, <1>14, <1>15, <1>16, <1>17, <1>18, <1>19, <1>20, <1>21, <1>22, <1>23, <1>24

Still == UNCHANGED <<pc, itemVars, failure, returned>>

LEMMA EntrySteps ==
    ASSUME [Next]_vars
    PROVE  /\ pc' = "syncSidecar" => LinkSidecar \/ Still
           /\ pc' = "journalSidecar" => SyncSidecar \/ Still
           /\ pc' = "bindDirectory" => CreateDirectory \/ Still
           /\ pc' = "journalReconciliation" => BindDirectory \/ Still
           /\ pc' = "syncData" => LinkData \/ BindDirectory \/ Still
           /\ pc' = "journalPublished" => SyncData \/ Still
           /\ pc' = "syncManifest" => LinkManifest \/ Still
           /\ pc' = "journalManifestPublished" => SyncManifest \/ Still
           /\ pc' = "journalTerminal" => JournalManifestPublished \/ Still
           /\ returned' = "ok" => JournalTerminal \/ Still \/ returned = "ok"
  <1>1. CASE RequestCancel \/ ForeignCreate \/ Crash \/ PowerLoss \/ UNCHANGED vars
    BY <1>1 DEF RequestCancel, ForeignCreate, Crash, PowerLoss, vars, Still, reportVars
  <1>2. ASSUME JournalTerminal
        PROVE  pc' = "returned"
    BY <1>2 DEF JournalTerminal, Return
  <1>3. Ends => (returned' = "ok" => returned = "ok")
    BY DEF Ends, Errors
  <1> QED BY <1>1, <1>2, <1>3, StepTargets
          DEF Next, WorkerStep, ItemStep, ManifestStep, FailedPhases

(* A directory that needs reconciliation keeps its name, and is the last   *)
(* item.                                                                   *)
LEMMA FailFailure ==
    ASSUME NEW e, NEW p, FailItem(e, p)
    PROVE  UNCHANGED failure \/ failure'.published = p
  BY DEF FailItem

LEMMA FailureSteps ==
    ASSUME TypeInv, ProgressInv, [Next]_vars
    PROVE  /\ failure.error # "none" => UNCHANGED <<failure, index, here>>
           /\ failure'.published =>
                 \/ failure.published
                 \/ /\ pc \in {"journalReconciliation", "journalPublished"} /\ power = "on"
                    /\ UNCHANGED <<index, here>> /\ Item.kind = "directory"
  <1> USE DEF FailItem, Goto, Return, Errors, ProgressInv, WorkPhases, EarlyPhases,
              PreparedPhases, PlacedPhases, ManifestPhases, SealPhases, At
  <1>1. CASE RequestCancel \/ ForeignCreate \/ Crash \/ PowerLoss \/ UNCHANGED vars
    BY <1>1 DEF RequestCancel, ForeignCreate, Crash, PowerLoss, vars, itemVars, reportVars
  <1>2. CASE CreateJob \/ JournalStarted \/ ItemStart \/ OpenParents \/ Stream
    <2>1. failure.error = "none" /\ (UNCHANGED failure \/ ~failure'.published)
      BY <1>2, FailFailure DEF CreateJob, JournalStarted, ItemStart, OpenParents, Stream,
         NoFailure, reportVars
    <2> QED BY <2>1
  <1>3. CASE JournalPrepared \/ PlanDirectory
    <2>1. failure.error = "none"
      BY <1>3 DEF JournalPrepared, PlanDirectory
    <2>2. UNCHANGED failure \/ ~failure'.published
      BY <1>3, FailFailure DEF JournalPrepared, PlanDirectory
    <2> QED BY <2>1, <2>2
  <1>4. CASE JournalReconciliation
    <2>1. Item.kind = "directory"
      BY <1>4 DEF JournalReconciliation, DirectoryPhases
    <2> QED BY <1>4, <2>1 DEF JournalReconciliation, itemVars
  <1>5. CASE LinkSidecar \/ LinkData \/ CreateDirectory
    BY <1>5 DEF LinkSidecar, LinkData, CreateDirectory, NextName
  <1>6. CASE JournalSidecar \/ SyncSidecar \/ BindDirectory \/ SyncData
    BY <1>6 DEF JournalSidecar, SyncSidecar, BindDirectory, SyncData, reportVars
  <1>7. CASE JournalPublished
    <2>1. failure.error = "none" /\ pc = "journalPublished" /\ power = "on" /\ UNCHANGED here
      BY <1>7 DEF JournalPublished
    <2>2. \/ UNCHANGED failure
          \/ UNCHANGED index /\ FailItem("needsReconciliation", Item.kind = "directory")
      BY <1>7 DEF JournalPublished
    <2>3. UNCHANGED failure \/ (UNCHANGED index /\ failure'.published = (Item.kind = "directory"))
      BY <2>2, FailFailure
    <2> QED BY <2>1, <2>3
  <1>8. CASE JournalItemFailure \/ ItemsDone \/ PrepareManifest \/ JournalManifestPrepared
             \/ LinkManifest \/ JournalLinkFailure \/ SyncManifest
             \/ JournalManifestPublished \/ JournalTerminal
    BY <1>8 DEF JournalItemFailure, ItemsDone, PrepareManifest, JournalManifestPrepared,
       LinkManifest, JournalLinkFailure, SyncManifest, JournalManifestPublished,
       JournalTerminal, itemVars, reportVars
  <1> QED BY <1>1, <1>2, <1>3, <1>4, <1>5, <1>6, <1>7, <1>8
          DEF Next, WorkerStep, ItemStep, ManifestStep

(* Entering the phase after a link is having linked.                       *)
LEMMA EntryNames ==
    ASSUME TypeInv, ProgressInv, [Next]_vars
    PROVE  /\ LinkSidecar /\ pc' = "syncSidecar" =>
                 sidecar' = Candidate(Item.sidecar) /\ Added(sidecar', "sidecar", index)
           /\ LinkData /\ pc' = "syncData" =>
                 here' = Candidate(Item.base) /\ Added(here', Final(index), index)
           /\ CreateDirectory /\ pc' = "bindDirectory" =>
                 here' = Candidate(Item.base) /\ Added(here', Final(index), index)
           /\ LinkManifest /\ pc' = "syncManifest" => Added(ManifestAt, "manifest", 0)
  <1>0. \A e \in Errors : FailItem(e, FALSE) => pc' \in FailedPhases
    BY FailTargets
  <1>1. ASSUME LinkSidecar, pc' = "syncSidecar"
        PROVE  sidecar' = Candidate(Item.sidecar) /\ Added(sidecar', "sidecar", index)
    <2>1. Candidate(Item.sidecar) \in Locations
      BY <1>1, ParentCandidate DEF LinkSidecar, At, ItemPhases
    <2> QED BY <1>0, <1>1, <2>1 DEF LinkSidecar, NextName, Goto, Added, FailedPhases, Errors
  <1>2. ASSUME LinkData, pc' = "syncData"
        PROVE  here' = Candidate(Item.base) /\ Added(here', Final(index), index)
    <2>1. Candidate(Item.base) \in Locations
      BY <1>2, ParentCandidate DEF LinkData, At, ItemPhases
    <2>2. Final(index) = "data"
      BY <1>2 DEF LinkData, At, ProgressInv, FilePhases, Final, Item
    <2> QED BY <1>0, <1>2, <2>1, <2>2 DEF LinkData, NextName, Goto, Added, FailedPhases, Errors
  <1>3. ASSUME CreateDirectory, pc' = "bindDirectory"
        PROVE  here' = Candidate(Item.base) /\ Added(here', Final(index), index)
    <2>1. Candidate(Item.base) \in Locations
      BY <1>3, ParentCandidate DEF CreateDirectory, At, ItemPhases
    <2>2. Final(index) = "directory"
      BY <1>3 DEF CreateDirectory, At, ProgressInv, DirectoryPhases, Final, Item
    <2> QED BY <1>0, <1>3, <2>1, <2>2
            DEF CreateDirectory, NextName, Goto, Added, FailedPhases, Errors
  <1>4. LinkManifest /\ pc' = "syncManifest" => Added(ManifestAt, "manifest", 0)
    BY LocationFacts DEF LinkManifest, Goto, Return, Added
  <1> QED BY <1>1, <1>2, <1>3, <1>4

LEMMA PlaceNext ==
    ASSUME TypeInv, ProgressInv, PlaceInv, [Next]_vars
    PROVE  PlaceInv'
  <1> DEFINE Kinds == {"sidecar", "data", "directory", "manifest"}
  <1>1. \A l \in Locations : \A k \in Kinds : \A i : \A d \in BOOLEAN :
           Holds(l, k, i, d) => Holds(l, k, i, d)'
    BY HoldsOn
  <1>2. \A l, k, i : Holds(l, k, i, TRUE) => Holds(l, k, i, FALSE)
    BY DEF Holds
  <1>3. \A i : Final(i) \in {"data", "directory"}
    BY DEF Final
  <1>4. /\ pc \in ItemPhases => {Item.dir} \X Names \subseteq Locations
        /\ ManifestAt \in Locations /\ ManifestAt[1] = Root
    BY ParentCandidate, LocationFacts
  <1>6. synced \in BOOLEAN /\ synced' \in BOOLEAN /\ (UNCHANGED index => Item' = Item)
    BY TypeSplit, TypeNext DEF ItemVarsType, Item, TypeInv, TypeOK
  <1>8. \A l \in Locations : \A k \in Kinds : \A i, d : \A ok \in BOOLEAN :
           l[1] = d /\ SyncParent(d, ok) /\ power = "on" /\ Holds(l, k, i, FALSE)
              => Holds(l, k, i, ok)'
    BY SyncHolds
  <1>9. \A l, k, i : Added(l, k, i) => Holds(l, k, i, FALSE)'
    BY AddedShape DEF Holds, Shows
  <1> HIDE DEF Kinds
  <1>10. ASSUME pc' \in {"syncSidecar", "journalSidecar"}
         PROVE  /\ (sidecar \in {Item.dir} \X Names)'
                /\ Holds(sidecar, "sidecar", index, pc = "journalSidecar" /\ synced)'
    <2>1. CASE Still
      <3>1. /\ sidecar \in {Item.dir} \X Names
            /\ Holds(sidecar, "sidecar", index, pc = "journalSidecar" /\ synced)
            /\ UNCHANGED <<pc, index, sidecar, synced>> /\ pc \in ItemPhases
        BY <1>10, <2>1 DEF PlaceInv, Still, itemVars, ItemPhases
      <3> QED BY <1>1, <1>4, <1>6, <3>1 DEF Kinds
    <2>2. CASE LinkSidecar /\ pc' = "syncSidecar"
      <3>1. /\ sidecar' = Candidate(Item.sidecar) /\ Added(sidecar', "sidecar", index)
            /\ UNCHANGED index /\ pc \in ItemPhases
        BY <2>2, EntryNames DEF LinkSidecar, At, ItemPhases
      <3>2. sidecar' \in {Item.dir} \X Names
        BY <3>1, ParentCandidate
      <3> QED BY <1>6, <1>9, <2>2, <3>1, <3>2
    <2>3. CASE SyncSidecar
      <3>1. /\ sidecar \in {Item.dir} \X Names /\ pc \in ItemPhases
            /\ Holds(sidecar, "sidecar", index, FALSE)
            /\ UNCHANGED <<index, sidecar>> /\ pc' = "journalSidecar" /\ power = "on"
            /\ SyncParent(Item.dir, synced')
        BY <2>3 DEF PlaceInv, SyncSidecar, At, Goto, ItemPhases
      <3>2. sidecar \in Locations /\ sidecar[1] = Item.dir
        BY <3>1, <1>4
      <3>3. Holds(sidecar, "sidecar", index, synced)'
        <4>1. PICK l, k, i, ok : l = sidecar /\ k = "sidecar" /\ i = index /\ ok = synced'
          OBVIOUS
        <4>2. Holds(l, k, i, FALSE) /\ l \in Locations /\ l[1] = Item.dir
          BY <3>1, <3>2, <4>1
        <4>3. power = "on" /\ SyncParent(Item.dir, ok) /\ ok \in BOOLEAN /\ k \in Kinds
          BY <3>1, <1>6, <4>1 DEF Kinds
        <4>4. Holds(l, k, i, ok)'
          BY <1>8, <4>2, <4>3, ZenonT(40)
        <4> QED
          BY <3>1, <4>1, <4>4
      <3> QED BY <1>6, <3>1, <3>3
    <2> QED BY <1>10, <2>1, <2>2, <2>3, EntrySteps
  <1>11. ASSUME pc' \in PlacedPhases
         PROVE  /\ (here \in {Item.dir} \X Names)'
                /\ Holds(here, Final(index), index, pc = "journalPublished" /\ synced)'
    <2>1. CASE Still \/ BindDirectory
      <3>1. /\ here \in {Item.dir} \X Names
            /\ Holds(here, Final(index), index, pc = "journalPublished" /\ synced)
            /\ UNCHANGED <<index, here>> /\ pc \in ItemPhases
            /\ (pc' = "journalPublished" /\ synced') = (pc = "journalPublished" /\ synced)
        BY <1>11, <2>1 DEF PlaceInv, Still, itemVars, ItemPhases, PlacedPhases,
           BindDirectory, At, Goto
      <3>2. PICK k, d : /\ k = Final(index) /\ d = (pc = "journalPublished" /\ synced)
                        /\ k = Final(index') /\ k \in Kinds /\ d \in BOOLEAN
        BY <3>1, <1>3 DEF Kinds
      <3>3. Holds(here, k, index, d)
        BY <3>1, <3>2
      <3>4. here \in Locations
        BY <3>1, <1>4
      <3>5. Holds(here, k, index, d)'
        BY <1>1, <3>1, <3>2, <3>3, <3>4
      <3>6. d = (pc' = "journalPublished" /\ synced')
        BY <3>1, <3>2
      <3>7. Holds(here, Final(index), index, pc = "journalPublished" /\ synced)'
        BY <3>2, <3>5, <3>6
      <3> QED BY <1>6, <3>1, <3>7
    <2>2. CASE (LinkData /\ pc' = "syncData") \/ (CreateDirectory /\ pc' = "bindDirectory")
      <3>1. /\ here' = Candidate(Item.base) /\ Added(here', Final(index), index)
            /\ UNCHANGED index /\ pc \in ItemPhases
        BY <2>2, EntryNames DEF LinkData, CreateDirectory, At, ItemPhases
      <3>2. here' \in {Item.dir} \X Names
        BY <3>1, ParentCandidate
      <3> QED BY <1>6, <1>9, <2>2, <3>1, <3>2
    <2>3. CASE SyncData
      <3>1. /\ here \in {Item.dir} \X Names /\ pc \in ItemPhases
            /\ Holds(here, Final(index), index, FALSE)
            /\ UNCHANGED <<index, here>> /\ pc' = "journalPublished" /\ power = "on"
        BY <2>3 DEF PlaceInv, SyncData, At, Goto, ItemPhases, PlacedPhases
      <3>2. PICK ok \in BOOLEAN : SyncParent(Item.dir, ok) /\ synced' = (synced /\ ok)
        BY <2>3 DEF SyncData
      <3>3. here \in Locations /\ here[1] = Item.dir
        BY <3>1, <1>4
      <3>4. PICK k : k = Final(index) /\ k = Final(index') /\ k \in Kinds
        BY <3>1, <1>3 DEF Kinds
      <3>5. Holds(here, k, index, synced)'
        <4>1. Holds(here, k, index, ok)'
          <5>1. PICK l, i : l = here /\ i = index
            OBVIOUS
          <5>2. Holds(l, k, i, FALSE) /\ l \in Locations /\ l[1] = Item.dir
            BY <3>1, <3>3, <3>4, <5>1
          <5>3. Holds(l, k, i, ok)'
            <6>1. power = "on" /\ SyncParent(Item.dir, ok) /\ ok \in BOOLEAN /\ k \in Kinds
              BY <3>1, <3>2, <3>4
            <6> QED BY <1>8, <5>2, <6>1, ZenonT(40)
          <5> QED BY <3>1, <5>1, <5>3
        <4>2. synced => synced' = ok
          BY <3>2, <1>6
        <4>3. CASE synced
          BY <4>1, <4>2, <4>3
        <4>4. CASE ~synced
          <5>1. ~synced'
            BY <3>2, <1>6, <4>4
          <5>2. Holds(here, k, index, ok)' => Holds(here, k, index, FALSE)'
            BY DEF Holds
          <5> QED BY <4>1, <5>1, <5>2, <1>6
        <4> QED BY <4>3, <4>4
      <3>6. Holds(here, Final(index), index, synced)'
        BY <3>4, <3>5
      <3> QED BY <1>6, <3>1, <3>6
    <2> QED BY <1>11, <2>1, <2>2, <2>3, EntrySteps DEF PlacedPhases
  <1>12. ASSUME failure'.published
         PROVE  /\ (here \in Locations)'
                /\ Holds(here, "directory", index, FALSE)'
    <2>1. UNCHANGED <<index, here>>
      BY <1>12, FailureSteps DEF ProgressInv, NoFailure
    <2>2. here \in Locations /\ Holds(here, "directory", index, FALSE)
      <3>1. CASE failure.published
        BY <3>1 DEF PlaceInv
      <3>2. CASE ~failure.published
        <4>1. pc \in PlacedPhases /\ pc \in ItemPhases /\ power = "on" /\ Item.kind = "directory"
          BY <1>12, <3>2, FailureSteps DEF PlacedPhases, ItemPhases
        <4>2. Final(index) = "directory"
          BY <4>1 DEF Final, Item
        <4>3. here \in Locations
          BY <4>1, <1>4 DEF PlaceInv
        <4>4. Holds(here, "directory", index, FALSE)
          BY <1>2, <4>1, <4>2 DEF PlaceInv
        <4> QED BY <4>3, <4>4
      <3> QED BY <3>1, <3>2
    <2> QED BY <1>1, <2>1, <2>2 DEF Kinds
  <1>13. ASSUME pc' \in {"syncManifest", "journalManifestPublished", "journalTerminal"}
         PROVE  Holds(ManifestAt, "manifest", 0, pc # "syncManifest" /\ synced)'
    <2>1. CASE Still \/ JournalManifestPublished
      <3>1. /\ Holds(ManifestAt, "manifest", 0, pc # "syncManifest" /\ synced)
            /\ (pc' # "syncManifest" /\ synced') = (pc # "syncManifest" /\ synced)
        BY <1>13, <2>1 DEF PlaceInv, Still, itemVars, JournalManifestPublished, At, Goto,
           Return
      <3> QED BY <1>1, <1>4, <1>6, <3>1 DEF Kinds, ManifestAt
    <2>2. CASE LinkManifest /\ pc' = "syncManifest"
      BY <1>9, <2>2, EntryNames DEF ManifestAt
    <2>3. CASE SyncManifest
      <3>1. /\ Holds(ManifestAt, "manifest", 0, FALSE) /\ power = "on"
            /\ pc' = "journalManifestPublished" /\ SyncParent(Root, synced')
        BY <2>3 DEF PlaceInv, SyncManifest, At, Goto
      <3>2. Holds(ManifestAt, "manifest", 0, synced)'
        BY <1>4, <1>6, <1>8, <3>1 DEF Kinds, ManifestAt
      <3> QED BY <1>6, <3>1, <3>2
    <2> QED BY <1>13, <2>1, <2>2, <2>3, EntrySteps
  <1>14. ASSUME returned' = "ok"
         PROVE  Holds(ManifestAt, "manifest", 0, FALSE)'
    <2>1. Holds(ManifestAt, "manifest", 0, FALSE)
      <3>1. CASE returned = "ok"
        BY <3>1 DEF PlaceInv
      <3>2. CASE JournalTerminal
        BY <1>2, <3>2 DEF JournalTerminal, At, PlaceInv
      <3> QED BY <1>14, <3>1, <3>2, EntrySteps DEF Still
    <2> QED BY <1>1, <1>4, <2>1 DEF Kinds, ManifestAt
  <1> QED BY <1>10, <1>11, <1>12, <1>13, <1>14 DEF PlaceInv

-----------------------------------------------------------------------------
(* What is in the directory: every name belongs to an item that was        *)
(* reached, is of the kind the plan asks for, and the name of an item that *)
(* failed is that of a directory left to be reconciled or of a file whose  *)
(* record met the limit of the journal, which ends the job.                *)
ItemEntry(l) == tree[l].kind \in {"data", "directory", "sidecar"}

EntryIsRight(l) ==
    LET i == tree[l].owner
    IN  /\ ItemEntry(l) <=> i \in Items
        /\ ItemEntry(l) => i <= index /\ tree[l].kind \in {"sidecar", Final(i)}
        /\ ItemEntry(l) /\ i = index => pc \notin EarlyPhases /\ failure.error # "cancelled"
        /\ tree[l].kind = "data" /\ partial[i] => Logged("itemSidecarPublished", i)
        /\ tree[l].kind = "sidecar" =>
              l = (IF i < index THEN results[i].sidecar ELSE sidecar)
        /\ tree[l].kind \in {"data", "directory"} /\ i = index =>
              /\ \/ pc \in PlacedPhases \cup {"journalItemFailure", "returned"}
                 \/ failure.published
              /\ failure.error # "none" =>
                    \/ failure.published
                    \/ /\ tree[l].kind = "data" /\ pc \in {"journalItemFailure", "returned"}
                       /\ Len(journal) >= MaxRecords /\ ~ManifestLinked

BarePhases == {"openParents", "stream", "journalPrepared", "linkSidecar"}

EntryInv ==
    /\ \A l \in Locations : EntryIsRight(l)
    /\ pc \in BarePhases => sidecar = NoLocation

LEMMA EntryInit == Init => EntryInv
  BY LocationFacts DEF Init, EntryInv, EntryIsRight, ItemEntry, NoEntry, BarePhases, Items

LEMMA JournalOn ==
    ASSUME TypeInv, [Next]_vars
    PROVE  /\ \A k, i : Logged(k, i) => Logged(k, i)'
           /\ Len(journal') >= Len(journal) /\ Len(journal) \in Nat /\ Len(journal') \in Nat
  <1>1. CASE UNCHANGED journal
    BY <1>1, RecordKept, TypeSplit DEF JournalType
  <1>2. CASE \E r : Appended(r)
    BY <1>2, RecordAdded, TypeSplit
  <1> QED BY <1>1, <1>2, JournalSteps

LEMMA EntryFree ==
    ASSUME NEW l, tree'[l].owner = 0,
           tree'[l].kind \notin {"data", "directory", "sidecar"}
    PROVE  EntryIsRight(l)'
  BY DEF EntryIsRight, ItemEntry, Items

(* A name stays right when the job moves on within an item,                *)
LEMMA EntryStays ==
    ASSUME TypeInv, [Next]_vars, NEW l \in Locations, EntryIsRight(l), Kept(l),
           UNCHANGED <<index, failure, results>>,
           \A i \in Items : partial'[i] = partial[i] \/ (i = index /\ pc \in EarlyPhases),
           sidecar' = sidecar \/ ~(tree[l].kind = "sidecar" /\ tree[l].owner = index),
           pc' \in EarlyPhases => pc \in EarlyPhases,
           pc \in PlacedPhases \cup {"journalItemFailure", "returned"} =>
              pc' \in PlacedPhases \cup {"journalItemFailure", "returned"},
           pc \in {"journalItemFailure", "returned"} =>
              /\ pc' \in {"journalItemFailure", "returned"}
              /\ ManifestLinked' => ManifestLinked
    PROVE  EntryIsRight(l)'
  <1> DEFINE i == tree[l].owner
  <1>1. /\ \A k, j : Logged(k, j) => Logged(k, j)'
        /\ Len(journal') >= Len(journal) /\ Len(journal) \in Nat /\ Len(journal') \in Nat
    BY JournalOn
  <1>2. tree'[l].owner = i /\ tree'[l].kind = tree[l].kind /\ (ItemEntry(l)' <=> ItemEntry(l))
    BY DEF Kept, ItemEntry
  <1>3. ItemEntry(l) <=> i \in Items
    BY DEF EntryIsRight
  <1>4. tree[l].kind = "data" /\ partial'[i] => Logged("itemSidecarPublished", i)'
    <2>1. tree[l].kind = "data" => i \in Items /\ (i = index => pc \notin EarlyPhases)
      BY DEF EntryIsRight, ItemEntry
    <2>2. tree[l].kind = "data" /\ partial'[i] => partial[i]
      BY <2>1
    <2>3. tree[l].kind = "data" /\ partial[i] => Logged("itemSidecarPublished", i)
      BY DEF EntryIsRight
    <2> QED BY <1>1, <1>2, <2>2, <2>3
  <1>5. i \in Items => i \in Nat
    BY DEF Items
  <1>6. tree[l].kind = "sidecar" =>
           l = (IF i < index THEN results[i].sidecar ELSE sidecar')
    <2>1. tree[l].kind = "sidecar" => i <= index /\ i \in Items
      BY DEF EntryIsRight, ItemEntry
    <2> QED BY <2>1, <1>5, ControlType DEF EntryIsRight
  <1>7. tree[l].kind \in {"data", "directory"} /\ i = index =>
              /\ \/ pc' \in PlacedPhases \cup {"journalItemFailure", "returned"}
                 \/ failure.published
              /\ failure.error # "none" =>
                    \/ failure.published
                    \/ /\ tree[l].kind = "data" /\ pc' \in {"journalItemFailure", "returned"}
                       /\ Len(journal') >= MaxRecords /\ ~ManifestLinked'
    BY <1>1 DEF EntryIsRight
  <1> QED BY <1>2, <1>4, <1>6, <1>7 DEF EntryIsRight

(* when its item fails,                                                    *)
LEMMA EntryFails ==
    ASSUME TypeInv, ProgressInv, LinkedInv, [Next]_vars,
           NEW l \in Locations, EntryIsRight(l), Kept(l),
           UNCHANGED <<index, results, partial, sidecar>>,
           pc \in ItemPhases \cap WorkPhases, NEW e \in Errors, NEW p \in BOOLEAN, FailItem(e, p),
           ManifestLinked' => ManifestLinked,
           e = "cancelled" => pc \in EarlyPhases,
           pc \in PlacedPhases =>
              p \/ (Item.kind = "file" /\ (~poisoned' => Len(journal) >= MaxRecords))
    PROVE  EntryIsRight(l)'
  <1>1. CASE UNCHANGED failure /\ pc' = "returned"
    <2>1. pc \notin {"journalItemFailure", "returned"}
      BY DEF WorkPhases, EarlyPhases, PreparedPhases, PlacedPhases
    <2> QED BY <1>1, <2>1, EntryStays DEF EarlyPhases
  <1>2. CASE /\ failure'.error = e /\ failure'.published = p /\ ~poisoned'
             /\ pc' = IF p THEN "prepareManifest" ELSE "journalItemFailure"
    <2> DEFINE i == tree[l].owner
    <2>1. /\ \A k, j : Logged(k, j) => Logged(k, j)'
          /\ Len(journal') >= Len(journal) /\ Len(journal) \in Nat /\ Len(journal') \in Nat
      BY JournalOn
    <2>2. tree'[l].owner = i /\ tree'[l].kind = tree[l].kind /\ (ItemEntry(l)' <=> ItemEntry(l))
      BY DEF Kept, ItemEntry
    <2>3. ~ManifestLinked' /\ failure.error = "none" /\ ~failure.published /\ pc # "returned"
          /\ pc # "journalItemFailure" /\ pc' \notin EarlyPhases
      BY <1>2 DEF LinkedInv, ProgressInv, NoFailure, WorkPhases, EarlyPhases, PreparedPhases,
         PlacedPhases
    <2>4. ItemEntry(l) /\ i = index => e # "cancelled"
      BY DEF EntryIsRight
    <2>5. ASSUME tree[l].kind \in {"data", "directory"}, i = index
          PROVE  p \/ (tree[l].kind = "data" /\ Len(journal') >= MaxRecords)
      <3>1. pc \in PlacedPhases /\ tree[l].kind = Final(index)
        BY <2>3, <2>5 DEF EntryIsRight, ItemEntry
      <3>2. Item.kind = "file" => Final(index) = "data"
        BY DEF Item, Final
      <3> QED BY <1>2, <2>1, <3>1, <3>2
    <2> QED BY <1>2, <2>1, <2>2, <2>3, <2>4, <2>5 DEF EntryIsRight
  <1> QED BY <1>1, <1>2 DEF FailItem, Return, Goto

(* and when it is published.                                               *)
LEMMA EntryPublished ==
    ASSUME TypeInv, ProgressInv, [Next]_vars, NEW l \in Locations, EntryIsRight(l), Kept(l),
           JournalPublished, index' # index
    PROVE  EntryIsRight(l)'
  <1> DEFINE i == tree[l].owner
  <1>1. \A k, j : Logged(k, j) => Logged(k, j)'
    BY JournalOn
  <1>2. tree'[l].owner = i /\ tree'[l].kind = tree[l].kind /\ (ItemEntry(l)' <=> ItemEntry(l))
    BY DEF Kept, ItemEntry
  <1>3. index' = index + 1 /\ index \in Nat /\ UNCHANGED partial
    BY ControlType DEF JournalPublished
  <1>4. ItemEntry(l) => i \in Items /\ i <= index /\ i \in Nat
    BY DEF EntryIsRight, Items
  <1>5. ASSUME tree[l].kind = "sidecar"
        PROVE  i < index' /\ l = results'[i].sidecar
    <2>1. i \in Nat /\ i <= index /\ i # 0
      BY <1>4, <1>5 DEF ItemEntry, Items
    <2>2. results'[index].sidecar = sidecar /\ \A j \in 1 .. index - 1 : results'[j] = results[j]
      BY <1>3, ResultAdded
    <2> QED BY <1>3, <1>5, <2>1, <2>2 DEF EntryIsRight
  <1>6. ItemEntry(l) => i # index' /\ i <= index'
    BY <1>3, <1>4
  <1>7. tree[l].kind \in {"data", "directory"} => ItemEntry(l)
    BY DEF ItemEntry
  <1> QED BY <1>1, <1>2, <1>3, <1>5, <1>6, <1>7 DEF EntryIsRight

(* Shape of EntryInv' from what a step does to each name.                  *)
LEMMA EntryCalm ==
    ASSUME TypeInv, Calm, \A l \in Locations : Kept(l) => EntryIsRight(l)',
           pc' \in BarePhases => sidecar' = NoLocation
    PROVE  EntryInv'
  <1>1. ASSUME NEW l \in Locations PROVE EntryIsRight(l)'
    <2>1. CASE Lost(l)
      BY <2>1, EntryFree DEF Lost, NoEntry
    <2>2. CASE Other(l)
      BY <2>2, EntryFree DEF Other
    <2> QED BY <2>1, <2>2 DEF Calm
  <1> QED BY <1>1 DEF EntryInv

LEMMA CalmManifest ==
    ASSUME Calm PROVE ManifestLinked' => ManifestLinked
  BY LocationFacts DEF Calm, ManifestLinked, ManifestAt, Kept, Lost, Other, NoEntry

LEMMA AddedKept ==
    ASSUME TypeInv, NEW l, NEW k, NEW i, Added(l, k, i)
    PROVE  \A m \in Locations \ {l} : Kept(m)
  BY AddedShape DEF Kept

LEMMA EntryLinks ==
    ASSUME TypeInv, ProgressInv, RecordInv, EntryInv, [Next]_vars, ~Calm
    PROVE  EntryInv'
  <1> USE DEF At, PreparedPhases, PlacedPhases, EarlyPhases, BarePhases
  <1>1. CASE /\ LinkSidecar /\ pc' = "syncSidecar" /\ UNCHANGED failure
             /\ Added(sidecar', "sidecar", index)
    <2>1. /\ pc = "linkSidecar" /\ UNCHANGED <<index, results, partial>>
          /\ sidecar = NoLocation /\ failure.error = "none" /\ ~failure.published
      BY <1>1 DEF LinkSidecar, EntryInv, ProgressInv, WorkPhases, NoFailure
    <2>2. index \in Items /\ Item \in PlanItem /\ index \in Nat
      BY <2>1, ControlType DEF ItemPhases
    <2>3. ASSUME NEW l \in Locations, l # sidecar'
          PROVE  EntryIsRight(l)'
      <3>1. EntryIsRight(l) /\ Kept(l)
        BY <1>1, <2>3, AddedKept DEF EntryInv
      <3>2. ~(tree[l].kind = "sidecar" /\ tree[l].owner = index)
        BY <2>1, <2>2, <3>1, LocationFacts DEF EntryIsRight
      <3> QED BY <1>1, <2>1, <3>1, <3>2, EntryStays
    <2>4. ASSUME NEW l \in Locations, l = sidecar'
          PROVE  EntryIsRight(l)'
      <3>1. tree'[l].kind = "sidecar" /\ tree'[l].owner = index
        BY <1>1, <2>4, AddedShape
      <3> QED BY <1>1, <2>1, <2>2, <2>4, <3>1 DEF EntryIsRight, ItemEntry
    <2> QED BY <1>1, <2>3, <2>4 DEF EntryInv
  <1>2. CASE \/ /\ LinkData /\ pc' = "syncData"
                /\ UNCHANGED failure /\ Added(here', "data", index)
             \/ /\ CreateDirectory /\ pc' = "bindDirectory"
                /\ UNCHANGED failure /\ Added(here', "directory", index)
    <2>0. /\ pc \in {"linkData", "createDirectory"}
          /\ UNCHANGED <<index, results, partial, sidecar, journal, failure>>
          /\ pc' \in {"syncData", "bindDirectory"}
      BY <1>2 DEF LinkData, CreateDirectory, journalVars
    <2>1. /\ pc \in {"linkData", "createDirectory"}
          /\ UNCHANGED <<index, results, partial, sidecar, journal, failure>>
          /\ failure.error = "none" /\ ~failure.published
          /\ pc' \in {"syncData", "bindDirectory"}
      BY <2>0 DEF ProgressInv, WorkPhases, NoFailure
    <2>2. index \in Items /\ Item \in PlanItem /\ index \in Nat
      BY <2>1, ControlType DEF ItemPhases
    <2>3. ASSUME NEW l \in Locations, l # here'
          PROVE  EntryIsRight(l)'
      <3>1. EntryIsRight(l) /\ Kept(l)
        BY <1>2, <2>3, AddedKept DEF EntryInv
      <3> QED BY <1>2, <2>1, <3>1, EntryStays
    <2>4. ASSUME NEW l \in Locations, l = here'
          PROVE  EntryIsRight(l)'
      <3>0. \/ pc = "linkData" /\ Added(l, "data", index)
            \/ pc = "createDirectory" /\ Added(l, "directory", index)
        BY <1>2, <2>4 DEF LinkData, CreateDirectory
      <3>1. /\ tree'[l].owner = index /\ tree'[l].kind = Final(index)
            /\ tree'[l].kind \in {"data", "directory"}
        BY <2>1, <2>2, <3>0, AddedShape
           DEF ProgressInv, FilePhases, DirectoryPhases, Final, Item
      <3>2. tree'[l].kind = "data" => pc = "linkData"
        BY <3>0, AddedShape
      <3>3. pc = "linkData" /\ partial[index] => Logged("itemSidecarPublished", index)'
        BY <2>1, RecordKept DEF RecordInv
      <3> QED BY <2>1, <2>2, <3>1, <3>2, <3>3 DEF EntryIsRight, ItemEntry, Final
    <2> QED BY <2>1, <2>3, <2>4 DEF EntryInv
  <1>3. CASE LinkManifest /\ pc' = "syncManifest" /\ Added(ManifestAt, "manifest", 0)
    <2>1. /\ pc = "linkManifest" /\ UNCHANGED <<index, results, partial, sidecar, failure>>
      BY <1>3 DEF LinkManifest, itemVars, reportVars
    <2>2. ASSUME NEW l \in Locations, l # ManifestAt
          PROVE  EntryIsRight(l)'
      <3>1. EntryIsRight(l) /\ Kept(l)
        BY <1>3, <2>2, AddedKept DEF EntryInv
      <3> QED BY <1>3, <2>1, <3>1, EntryStays
    <2>3. ASSUME NEW l \in Locations, l = ManifestAt
          PROVE  EntryIsRight(l)'
      BY <1>3, <2>3, AddedShape, EntryFree
    <2> QED BY <1>3, <2>2, <2>3 DEF EntryInv
  <1> QED BY <1>1, <1>2, <1>3, TreeSteps

(* The steps that add no name of an item.                                  *)
LEMMA EntryMoves ==
    ASSUME TypeInv, ProgressInv, EntryInv, [Next]_vars, Calm,
           UNCHANGED <<index, failure, results, sidecar>>,
           \A i \in Items : partial'[i] = partial[i] \/ (i = index /\ pc \in EarlyPhases),
           pc' \in EarlyPhases => pc \in EarlyPhases,
           pc \in PlacedPhases \cup {"journalItemFailure", "returned"} =>
              pc' \in PlacedPhases \cup {"journalItemFailure", "returned"},
           pc \in {"journalItemFailure", "returned"} =>
              pc' \in {"journalItemFailure", "returned"},
           pc' \in BarePhases => pc \in BarePhases
    PROVE  EntryInv'
  <1>1. ManifestLinked' => ManifestLinked
    BY CalmManifest
  <1>2. \A l \in Locations : Kept(l) => EntryIsRight(l)'
    BY <1>1, EntryStays DEF EntryInv
  <1>3. pc' \in BarePhases => sidecar' = NoLocation
    BY DEF EntryInv
  <1> QED BY <1>2, <1>3, EntryCalm

LEMMA EntryFailures ==
    ASSUME TypeInv, ProgressInv, LinkedInv, EntryInv, [Next]_vars, Calm,
           UNCHANGED <<index, results, partial, sidecar>>,
           pc \in ItemPhases \cap WorkPhases, NEW e \in Errors, NEW p \in BOOLEAN, FailItem(e, p),
           e = "cancelled" => pc \in EarlyPhases,
           pc \in PlacedPhases =>
              p \/ (Item.kind = "file" /\ (~poisoned' => Len(journal) >= MaxRecords))
    PROVE  EntryInv'
  <1>1. ManifestLinked' => ManifestLinked
    BY CalmManifest
  <1>2. \A l \in Locations : Kept(l) => EntryIsRight(l)'
    BY <1>1, EntryFails DEF EntryInv
  <1>3. pc' \notin BarePhases
    BY FailTargets DEF FailedPhases, BarePhases
  <1> QED BY <1>2, <1>3, EntryCalm

LEMMA EntryItemSteps ==
    ASSUME TypeInv, ProgressInv, LinkedInv, EntryInv, [Next]_vars, Calm, ItemStep
    PROVE  EntryInv'
  <1> USE DEF At, Goto, Return, PreparedPhases, PlacedPhases, EarlyPhases, BarePhases
  <1>1. CASE ItemStart
    <2>1. /\ pc = "itemStart" /\ pc' \in {"openParents", "journalItemFailure"}
          /\ UNCHANGED <<index, results, partial>> /\ sidecar' = NoLocation
      BY <1>1 DEF ItemStart
    <2>2. index \in Nat /\ index \in Items
      BY <1>1, ControlType DEF ItemStart
    <2>3. ASSUME NEW l \in Locations, Kept(l) PROVE EntryIsRight(l)'
      <3> DEFINE i == tree[l].owner
      <3>1. tree'[l].owner = i /\ tree'[l].kind = tree[l].kind /\ (ItemEntry(l)' <=> ItemEntry(l))
        BY <2>3 DEF Kept, ItemEntry
      <3>2. EntryIsRight(l)
        BY DEF EntryInv
      <3>3. ItemEntry(l) => i # index /\ i < index
        BY <2>1, <2>2, <3>2 DEF EntryIsRight, Items
      <3>4. \A k, j : Logged(k, j) => Logged(k, j)'
        BY JournalOn
      <3>5. tree[l].kind \in {"data", "directory", "sidecar"} => ItemEntry(l)
        BY DEF ItemEntry
      <3>6. tree'[l].kind = "data" /\ partial'[tree'[l].owner]
               => Logged("itemSidecarPublished", tree[l].owner)'
        <4>1. tree[l].kind = "data" /\ partial[i] => Logged("itemSidecarPublished", i)
          BY <3>2 DEF EntryIsRight
        <4> QED BY <2>1, <3>1, <3>4, <4>1
      <3> QED BY <2>1, <3>1, <3>2, <3>3, <3>5, <3>6 DEF EntryIsRight
    <2> QED BY <2>1, <2>3, EntryCalm
  <1>2. CASE OpenParents \/ Stream \/ JournalPrepared \/ PlanDirectory
    <2>1. /\ UNCHANGED <<index, results, sidecar>>
          /\ pc \in {"openParents", "stream", "journalPrepared", "planDirectory"}
          /\ pc # "stream" => UNCHANGED partial
      BY <1>2 DEF OpenParents, Stream, JournalPrepared, PlanDirectory, itemVars
    <2>2. \/ /\ UNCHANGED failure
             /\ pc' \in {"stream", "journalPrepared", "linkSidecar", "linkData", "planDirectory",
                         "createDirectory"}
             /\ pc = "planDirectory" => pc' = "createDirectory"
             /\ \A i \in Items : partial'[i] = partial[i] \/ (i = index /\ pc = "stream")
          \/ /\ UNCHANGED partial
             /\ \E e \in Errors : FailItem(e, FALSE) /\ (e = "cancelled" => pc = "stream")
      <3>1. CASE OpenParents
        BY <3>1 DEF OpenParents, itemVars, Errors
      <3>2. CASE Stream
        <4>1. partial \in [Items -> BOOLEAN]
          BY TypeSplit DEF ItemVarsType
        <4>2. CASE \E p \in {FALSE, Item.bestEffort} : partial' = [partial EXCEPT ![index] = p]
                   /\ pc' = "journalPrepared" /\ UNCHANGED failure
          BY <3>2, <4>1, <4>2 DEF Stream
        <4>3. CASE UNCHANGED partial /\ \E e \in {"restoreFailure", "cancelled"} : FailItem(e, FALSE)
          BY <3>2, <4>3 DEF Stream, Errors
        <4> QED BY <3>2, <4>2, <4>3 DEF Stream
      <3>3. CASE JournalPrepared \/ PlanDirectory
        <4>1. UNCHANGED partial /\ pc \in {"journalPrepared", "planDirectory"}
          BY <3>3 DEF JournalPrepared, PlanDirectory, itemVars
        <4>2. JournalPrepared => \/ GoesOn(IF Item.kind = "directory" THEN {"planDirectory"}
                                           ELSE {"linkSidecar", "linkData"})
                                    /\ UNCHANGED failure /\ pc = "journalPrepared"
                                 \/ \E e \in {"journalRecordLimit", "journalDurability"} :
                                       FailItem(e, FALSE)
          BY AppendSteps DEF JournalPrepared
        <4>3. PlanDirectory => \/ GoesOn({"createDirectory"}) /\ UNCHANGED failure
                               \/ \E e \in {"journalRecordLimit", "journalDurability"} :
                                     FailItem(e, FALSE)
          BY AppendSteps
        <4> QED BY <3>3, <4>1, <4>2, <4>3 DEF GoesOn, Errors
      <3> QED BY <1>2, <3>1, <3>2, <3>3
    <2>3. CASE /\ UNCHANGED failure
               /\ pc' \in {"stream", "journalPrepared", "linkSidecar", "linkData",
                           "planDirectory", "createDirectory"}
               /\ pc = "planDirectory" => pc' = "createDirectory"
               /\ \A i \in Items : partial'[i] = partial[i] \/ (i = index /\ pc = "stream")
      BY <2>1, <2>3, EntryMoves
    <2>4. CASE UNCHANGED partial /\ \E e \in Errors : FailItem(e, FALSE) /\ (e = "cancelled" => pc = "stream")
      BY <2>1, <2>4, EntryFailures DEF ItemPhases, WorkPhases
    <2> QED BY <2>2, <2>3, <2>4
  <1>3. CASE LinkSidecar \/ LinkData \/ CreateDirectory
    <2>1. /\ UNCHANGED <<index, results, partial>>
          /\ pc \in {"linkSidecar", "linkData", "createDirectory"}
      BY <1>3 DEF LinkSidecar, LinkData, CreateDirectory
    <2>2. \/ UNCHANGED <<failure, sidecar>> /\ pc' \in {"linkSidecar", "linkData", "planDirectory"}
             /\ (pc' = "linkSidecar" => pc = "linkSidecar")
          \/ UNCHANGED sidecar /\ \E e \in Errors \ {"cancelled"} : FailItem(e, FALSE)
      <3>1. ASSUME NEW l, NEW k, NEW i, l \in Locations, Free(l), Place(l, New(k, i)),
                   k \in {"sidecar", "data", "directory"}, i \in Items
            PROVE  FALSE
        <4>1. tree'[l].kind = k /\ tree'[l].owner = i /\ i # 0
          BY <3>1, AddedShape DEF Added, Items
        <4> QED BY <3>1, <4>1 DEF Calm, Kept, Lost, Other, Free, NoEntry
      <3>2. /\ index \in Items /\ Candidate(Item.base) \in Locations
            /\ Candidate(Item.sidecar) \in Locations
        BY <2>1, ControlType, ParentCandidate DEF ItemPhases
      <3>3. CASE LinkSidecar
        BY <3>1, <3>2, <3>3 DEF LinkSidecar, NextName, Errors
      <3>4. CASE LinkData
        BY <3>1, <3>2, <3>4 DEF LinkData, NextName, Errors
      <3>5. CASE CreateDirectory
        BY <3>1, <3>2, <3>5 DEF CreateDirectory, NextName, Errors
      <3> QED BY <1>3, <3>3, <3>4, <3>5
    <2>3. CASE UNCHANGED <<failure, sidecar>> /\ pc' \in {"linkSidecar", "linkData", "planDirectory"}
               /\ (pc' = "linkSidecar" => pc = "linkSidecar")
      BY <2>1, <2>3, EntryMoves
    <2>4. CASE UNCHANGED sidecar /\ \E e \in Errors \ {"cancelled"} : FailItem(e, FALSE)
      BY <2>1, <2>4, EntryFailures DEF ItemPhases, WorkPhases
    <2> QED BY <2>2, <2>3, <2>4
  <1>4. CASE SyncSidecar \/ BindDirectory \/ SyncData
    BY <1>4, EntryMoves DEF SyncSidecar, BindDirectory, SyncData, reportVars
  <1>5. CASE JournalSidecar
    <2>1. /\ UNCHANGED <<index, results, partial, sidecar>> /\ pc = "journalSidecar"
          /\ \/ UNCHANGED failure /\ pc' = "linkData"
             \/ FailItem("needsReconciliation", FALSE)
      BY <1>5 DEF JournalSidecar
    <2>2. CASE UNCHANGED failure /\ pc' = "linkData"
      BY <2>1, <2>2, EntryMoves
    <2>3. CASE FailItem("needsReconciliation", FALSE)
      BY <2>1, <2>3, EntryFailures DEF ItemPhases, WorkPhases, Errors
    <2> QED BY <2>1, <2>2, <2>3
  <1>6. CASE JournalReconciliation
    <2>1. /\ UNCHANGED <<index, results, partial, sidecar>> /\ pc = "journalReconciliation"
          /\ FailItem("needsReconciliation", TRUE)
      BY <1>6 DEF JournalReconciliation, itemVars
    <2> QED BY <2>1, EntryFailures DEF ItemPhases, WorkPhases, Errors
  <1>7. CASE JournalPublished
    <2>1. /\ UNCHANGED <<partial, sidecar>> /\ pc = "journalPublished"
          /\ index \in Nat /\ Item \in PlanItem
      BY <1>7, ControlType DEF JournalPublished, ItemPhases
    <2>2. \/ index' = index + 1 /\ pc' = "itemStart"
          \/ /\ UNCHANGED <<index, results>> /\ (~poisoned' => Len(journal) >= MaxRecords)
             /\ FailItem("needsReconciliation", Item.kind = "directory")
      BY <1>7, AppendError DEF JournalPublished
    <2>3. CASE index' = index + 1 /\ pc' = "itemStart"
      BY <1>7, <2>1, <2>3, EntryPublished, EntryCalm DEF EntryInv
    <2>4. CASE /\ UNCHANGED <<index, results>> /\ (~poisoned' => Len(journal) >= MaxRecords)
               /\ FailItem("needsReconciliation", Item.kind = "directory")
      <3>1. (Item.kind = "directory") \in BOOLEAN /\ (Item.kind = "directory" \/ Item.kind = "file")
        BY <2>1 DEF PlanItem
      <3> QED BY <2>1, <2>4, <3>1, EntryFailures DEF ItemPhases, WorkPhases, Errors
    <2> QED BY <2>2, <2>3, <2>4
  <1>8. CASE JournalItemFailure
    <2>1. /\ UNCHANGED <<index, results, partial, sidecar, failure, tree>>
          /\ pc = "journalItemFailure"
      BY <1>8 DEF JournalItemFailure, itemVars, reportVars
    <2>2. \/ pc' = "returned"
          \/ pc' = "prepareManifest" /\ Len(journal) < MaxRecords
      BY <1>8, AppendDone DEF JournalItemFailure
    <2>3. CASE pc' = "returned"
      BY <2>1, <2>3, EntryMoves
    <2>4. CASE pc' = "prepareManifest" /\ Len(journal) < MaxRecords
      <3>1. ASSUME NEW l \in Locations PROVE EntryIsRight(l)'
        <4>1. EntryIsRight(l) /\ failure.error # "none" /\ ~failure.published
              /\ MaxRecords \in Nat /\ Len(journal) \in Nat
          BY <2>1, TypeSplit DEF EntryInv, ProgressInv, JournalType
        <4>2. ~(tree[l].kind \in {"data", "directory"} /\ tree[l].owner = index)
          BY <2>4, <4>1 DEF EntryIsRight
        <4>3. \A k, j : Logged(k, j) => Logged(k, j)'
          BY JournalOn
        <4>4. tree'[l] = tree[l] /\ (ItemEntry(l)' <=> ItemEntry(l))
          BY <2>1 DEF ItemEntry
        <4>5. tree[l].kind = "data" /\ partial[tree[l].owner]
                 => Logged("itemSidecarPublished", tree[l].owner)'
          BY <4>1, <4>3, <2>1 DEF EntryIsRight
        <4> QED BY <2>1, <2>4, <4>1, <4>2, <4>4, <4>5 DEF EntryIsRight
      <3> QED BY <2>4, <3>1 DEF EntryInv
    <2> QED BY <2>2, <2>3, <2>4
  <1> QED BY <1>1, <1>2, <1>3, <1>4, <1>5, <1>6, <1>7, <1>8 DEF ItemStep

LEMMA EntryNext ==
    ASSUME TypeInv, ProgressInv, RecordInv, LinkedInv, EntryInv, [Next]_vars
    PROVE  EntryInv'
  <1> USE DEF At, Goto, Return, PreparedPhases, PlacedPhases, EarlyPhases, BarePhases
  <1>1. CASE Calm /\ ~ItemStep
    <2>1. CASE CreateJob \/ JournalStarted \/ ItemsDone \/ PrepareManifest
               \/ JournalManifestPrepared \/ LinkManifest
      BY <1>1, <2>1, EntryMoves DEF CreateJob, JournalStarted, ItemsDone, PrepareManifest,
         JournalManifestPrepared, LinkManifest, itemVars, reportVars
    <2>2. CASE JournalLinkFailure \/ SyncManifest \/ JournalManifestPublished \/ JournalTerminal
      BY <1>1, <2>2, EntryMoves DEF JournalLinkFailure, SyncManifest,
         JournalManifestPublished, JournalTerminal, itemVars, reportVars
    <2>3. CASE RequestCancel \/ ForeignCreate \/ Crash \/ PowerLoss \/ UNCHANGED vars
      BY <1>1, <2>3, EntryMoves DEF RequestCancel, ForeignCreate, Crash, PowerLoss, vars,
         itemVars, reportVars
    <2> QED BY <1>1, <2>1, <2>2, <2>3 DEF Next, WorkerStep, ManifestStep
  <1> QED BY <1>1, EntryItemSteps, EntryLinks

-----------------------------------------------------------------------------
(* What the records say is there is there.                                 *)
ClaimKind(r) == IF EntryOf(r) = "file" THEN "data" ELSE EntryOf(r)

ClaimIsTrue(r) ==
    /\ r.kind \in Claims =>
          r.at \in Locations /\ Holds(r.at, ClaimKind(r), r.item, r.durable)
    /\ r.kind = "jobCompleted" /\ r.durable => Holds(ManifestAt, "manifest", 0, TRUE)

ClaimInv == \A r \in Records : ClaimIsTrue(r)

LEMMA ClaimInit == Init => ClaimInv
  <1> SUFFICES ASSUME Init PROVE Records = {}
    BY DEF ClaimInv
  <1> QED BY DEF Init, Records

LEMMA ClaimOn ==
    ASSUME TypeInv, [Next]_vars, NEW r \in Record, r.kind = "itemPublished" => r.item # 0,
           ClaimIsTrue(r)
    PROVE  ClaimIsTrue(r)'
  <1>1. r.durable \in BOOLEAN
    BY DEF Record
  <1>2. r.kind \in Claims => ClaimKind(r) \in {"sidecar", "data", "directory", "manifest"}
    <2>1. CASE r.kind = "itemPublished"
      <3>1. r.item \in Items
        BY <2>1, PlanLength DEF Record, Items
      <3>2. Plan[r.item] \in PlanItem
        BY <3>1 DEF Items
      <3> QED BY <2>1, <3>2 DEF ClaimKind, EntryOf, PlanItem
    <2>2. CASE r.kind = "itemSidecarPublished"
      BY <2>2 DEF ClaimKind, EntryOf
    <2>3. CASE r.kind = "manifestPublished"
      BY <2>3 DEF ClaimKind, EntryOf
    <2> QED BY <2>1, <2>2, <2>3 DEF Claims
  <1>3. r.kind \in Claims => Holds(r.at, ClaimKind(r), r.item, r.durable)'
    BY <1>1, <1>2, HoldsOn DEF ClaimIsTrue
  <1>4. r.kind = "jobCompleted" /\ r.durable => Holds(ManifestAt, "manifest", 0, TRUE)'
    BY HoldsOn, LocationFacts DEF ClaimIsTrue, ManifestAt
  <1> QED BY <1>3, <1>4 DEF ClaimIsTrue

(* The records that claim something, where they are written.               *)
LEMMA ClaimSteps ==
    ASSUME TypeInv, [Next]_vars
    PROVE  \/ UNCHANGED journal
           \/ \E r : /\ Appended(r) /\ power = "on"
                     /\ \/ r.kind \notin Claims \cup {"jobCompleted"}
                        \/ /\ pc = "journalSidecar"
                           /\ r = Rec("itemSidecarPublished", index, sidecar, synced)
                        \/ /\ pc = "journalPublished"
                           /\ r = Rec("itemPublished", index, here, synced)
                        \/ /\ pc = "journalManifestPublished"
                           /\ r = Rec("manifestPublished", 0, ManifestAt, synced)
                        \/ /\ pc = "journalTerminal" /\ r.kind \notin Claims
                           /\ r.durable => synced
  <1> USE DEF At
  <1>0. \A r, e : AppendFailed(r, e) => UNCHANGED journal
    BY AppendError
  <1>1. CASE JournalSidecar
    BY <1>0, <1>1 DEF JournalSidecar
  <1>2. CASE JournalPublished
    BY <1>0, <1>2 DEF JournalPublished
  <1>3. CASE JournalManifestPublished
    BY <1>0, <1>3 DEF JournalManifestPublished
  <1>4. CASE JournalTerminal
    <2> DEFINE r == Rec(CASE failure.error = "none"      -> "jobCompleted"
                          [] failure.error = "cancelled" -> "jobCancelled"
                          [] OTHER                       -> "jobFailed",
                        0, NoLocation, failure.error = "none" /\ AllDurable)
    <2>1. /\ Appended(r) \/ (\E e \in Errors : AppendFailed(r, e))
          /\ pc = "journalTerminal" /\ power = "on"
      BY <1>4 DEF JournalTerminal
    <2>2. r.kind \notin Claims /\ (r.durable => synced)
      BY DEF Rec, Claims, AllDurable
    <2> QED BY <1>0, <2>1, <2>2
  <1>5. CASE JournalPrepared \/ PlanDirectory \/ JournalReconciliation \/ JournalStarted
    <2>1. \A i, l, d : /\ Rec("itemPrepared", i, l, d).kind \notin Claims \cup {"jobCompleted"}
                      /\ Rec("directoryPublicationPlanned", i, l, d).kind
                            \notin Claims \cup {"jobCompleted"}
                      /\ Rec("directoryReconciliationRequired", i, l, d).kind
                            \notin Claims \cup {"jobCompleted"}
                      /\ Rec("jobStarted", i, l, d).kind \notin Claims \cup {"jobCompleted"}
      BY DEF Rec, Claims
    <2>2. CASE JournalPrepared
      BY <1>0, <2>1, <2>2 DEF JournalPrepared
    <2>3. CASE PlanDirectory
      BY <1>0, <2>1, <2>3 DEF PlanDirectory
    <2>4. CASE JournalReconciliation
      BY <1>0, <2>1, <2>4 DEF JournalReconciliation
    <2>5. CASE JournalStarted
      BY <1>0, <2>1, <2>5 DEF JournalStarted
    <2> QED BY <1>5, <2>2, <2>3, <2>4, <2>5
  <1>6. CASE JournalItemFailure \/ JournalManifestPrepared \/ JournalLinkFailure
    BY <1>0, <1>6 DEF JournalItemFailure, JournalManifestPrepared, JournalLinkFailure,
       Rec, Claims
  <1>7. CASE UNCHANGED journal
    BY <1>7
  <1>8. \/ UNCHANGED journal
        \/ JournalSidecar \/ JournalPublished \/ JournalManifestPublished \/ JournalTerminal
        \/ JournalPrepared \/ PlanDirectory \/ JournalReconciliation \/ JournalStarted
        \/ JournalItemFailure \/ JournalManifestPrepared \/ JournalLinkFailure
    BY DEF Next, WorkerStep, ItemStep, ManifestStep, CreateJob, ItemStart, OpenParents, Stream,
       LinkSidecar, SyncSidecar, LinkData, CreateDirectory, BindDirectory, SyncData,
       ItemsDone, PrepareManifest, LinkManifest, SyncManifest, RequestCancel, ForeignCreate,
       Crash, PowerLoss, vars, journalVars
  <1> QED BY <1>1, <1>2, <1>3, <1>4, <1>5, <1>6, <1>7, <1>8

LEMMA ClaimNext ==
    ASSUME TypeInv, ProgressInv, RecordInv, PlaceInv, ClaimInv, [Next]_vars
    PROVE  ClaimInv'
  <1>1. Records \subseteq Record /\ \A r \in Records : r.kind = "itemPublished" => r.item # 0
    <2>1. Records \subseteq Record
      BY TypeSplit DEF Records, JournalType
    <2>2. \A r \in Records : r.kind = "itemPublished" => r.item # 0
      BY DEF RecordInv, RecordIsRight, JobKinds
    <2> QED BY <2>1, <2>2
  <1>2. \A r \in Records : ClaimIsTrue(r)'
    BY <1>1, ClaimOn DEF ClaimInv
  <1>3. CASE UNCHANGED journal
    BY <1>2, <1>3, RecordKept DEF ClaimInv
  <1>4. ASSUME NEW r, Appended(r), power = "on",
               \/ r.kind \notin Claims \cup {"jobCompleted"}
               \/ /\ pc = "journalSidecar"
                  /\ r = Rec("itemSidecarPublished", index, sidecar, synced)
               \/ /\ pc = "journalPublished"
                  /\ r = Rec("itemPublished", index, here, synced)
               \/ /\ pc = "journalManifestPublished"
                  /\ r = Rec("manifestPublished", 0, ManifestAt, synced)
               \/ /\ pc = "journalTerminal" /\ r.kind \notin Claims
                  /\ r.durable => synced
        PROVE  ClaimInv'
    <2>1. Records' = Records \cup {r}
      BY <1>4, TypeSplit, RecordAdded
    <2>2. r \in Record /\ (r.kind = "itemPublished" => r.item # 0)
      <3>1. r \in Record
        <4>1. r \in Records' /\ TypeInv'
          BY <2>1, TypeNext
        <4>2. journal' \in Seq(Record)
          BY <4>1 DEF TypeInv, TypeOK
        <4> QED BY <4>1, <4>2 DEF Records
      <3>2. r.kind = "itemPublished" => index # 0 /\ r.item = index
        BY <1>4, ControlType DEF Rec, Claims
      <3> QED BY <3>1, <3>2
    <2>3. ClaimIsTrue(r)
      <3>1. CASE r.kind \notin Claims \cup {"jobCompleted"}
        BY <3>1 DEF ClaimIsTrue
      <3>2. CASE pc = "journalSidecar" /\ r = Rec("itemSidecarPublished", index, sidecar, synced)
        <4>1. sidecar \in Locations
          BY <3>2, ParentCandidate DEF PlaceInv, ItemPhases
        <4>2. Holds(sidecar, "sidecar", index, synced)
          BY <3>2, TypeSplit DEF PlaceInv, ItemVarsType
        <4> QED BY <3>2, <4>1, <4>2 DEF ClaimIsTrue, Rec, ClaimKind, EntryOf
      <3>3. CASE pc = "journalPublished" /\ r = Rec("itemPublished", index, here, synced)
        <4>1. here \in Locations
          BY <3>3, ParentCandidate DEF PlaceInv, ItemPhases, PlacedPhases
        <4>2. Holds(here, Final(index), index, synced)
          BY <3>3, TypeSplit DEF PlaceInv, ItemVarsType, PlacedPhases
        <4>3. ClaimKind(r) = Final(index)
          <5>1. Plan[index] \in PlanItem /\ r.kind = "itemPublished" /\ r.item = index
            BY <3>3, ControlType DEF ItemPhases, Rec, Item
          <5> QED BY <5>1 DEF ClaimKind, EntryOf, Final, PlanItem
        <4> QED BY <3>3, <4>1, <4>2, <4>3 DEF ClaimIsTrue, Rec
      <3>4. CASE pc = "journalManifestPublished" /\ r = Rec("manifestPublished", 0, ManifestAt, synced)
        <4>1. Holds(ManifestAt, "manifest", 0, synced)
          BY <3>4, TypeSplit DEF PlaceInv, ItemVarsType
        <4> QED BY <3>4, <4>1, LocationFacts DEF ClaimIsTrue, Rec, ClaimKind, EntryOf
      <3>5. CASE pc = "journalTerminal" /\ r.kind \notin Claims /\ (r.durable => synced)
        <4>1. Holds(ManifestAt, "manifest", 0, synced)
          BY <3>5, TypeSplit DEF PlaceInv, ItemVarsType
        <4>2. r.durable => Holds(ManifestAt, "manifest", 0, TRUE)
          BY <3>5, <4>1, TypeSplit DEF ItemVarsType
        <4> QED BY <3>5, <4>2 DEF ClaimIsTrue
      <3> QED BY <1>4, <3>1, <3>2, <3>3, <3>4, <3>5
    <2>4. ClaimIsTrue(r)'
      BY <2>2, <2>3, ClaimOn
    <2> QED BY <1>2, <2>1, <2>4 DEF ClaimInv
  <1> QED BY <1>3, <1>4, ClaimSteps

-----------------------------------------------------------------------------
(* What the manifest says.  After the prefix it is bound to, the journal   *)
(* holds records of the job only.                                          *)
SealInv ==
    pc \in SealPhases \cup {"journalManifestPrepared"} \/ ManifestLinked =>
       /\ manifest.outcomes = [i \in Items |-> Disposition(i)]
       /\ manifest.sidecars = [i \in Items |-> SidecarEvidence(i)]
       /\ manifest.prefix \in 0 .. Len(journal)
       /\ \A n \in DOMAIN journal :
             n > manifest.prefix => journal[n].kind \in JobKinds

LEMMA SealInit == Init => SealInv
  BY LocationFacts DEF Init, SealInv, SealPhases, ManifestLinked, NoEntry

LEMMA SealSteps ==
    ASSUME TypeInv, [Next]_vars,
           \/ JournalManifestPrepared \/ LinkManifest \/ JournalLinkFailure \/ SyncManifest
           \/ JournalManifestPublished \/ JournalTerminal
           \/ RequestCancel \/ ForeignCreate \/ Crash \/ PowerLoss \/ UNCHANGED vars
    PROVE  /\ UNCHANGED <<index, results, failure, manifest>>
           /\ UNCHANGED journal \/ \E r : Appended(r) /\ r.kind \in JobKinds
  <1>0. \A r, e : AppendFailed(r, e) => UNCHANGED journal
    BY AppendError
  <1>1. CASE JournalTerminal
    <2> DEFINE r == Rec(CASE failure.error = "none"      -> "jobCompleted"
                          [] failure.error = "cancelled" -> "jobCancelled"
                          [] OTHER                       -> "jobFailed",
                        0, NoLocation, failure.error = "none" /\ AllDurable)
    <2>1. /\ Appended(r) \/ (\E e \in Errors : AppendFailed(r, e))
          /\ UNCHANGED <<index, results, failure, manifest>>
      BY <1>1 DEF JournalTerminal, itemVars
    <2>2. r.kind \in JobKinds
      BY DEF Rec, JobKinds
    <2> QED BY <1>0, <2>1, <2>2
  <1>2. CASE JournalManifestPrepared
    BY <1>0, <1>2 DEF JournalManifestPrepared, Rec, JobKinds, itemVars, reportVars
  <1>3. CASE JournalLinkFailure
    BY <1>0, <1>3 DEF JournalLinkFailure, Rec, JobKinds, itemVars, reportVars
  <1>4. CASE JournalManifestPublished
    BY <1>0, <1>4 DEF JournalManifestPublished, Rec, JobKinds, itemVars, reportVars
  <1>5. CASE LinkManifest \/ SyncManifest
    BY <1>5 DEF LinkManifest, SyncManifest, journalVars, itemVars, reportVars
  <1>6. CASE RequestCancel \/ ForeignCreate \/ Crash \/ PowerLoss \/ UNCHANGED vars
    BY <1>6 DEF RequestCancel, ForeignCreate, Crash, PowerLoss, vars, journalVars, itemVars,
       reportVars
  <1> QED BY <1>1, <1>2, <1>3, <1>4, <1>5, <1>6

LEMMA SealNext ==
    ASSUME TypeInv, ProgressInv, RecordInv, LinkedInv, SealInv, [Next]_vars
    PROVE  SealInv'
  <1> DEFINE Sealed == pc \in SealPhases \cup {"journalManifestPrepared"} \/ ManifestLinked
  <1>0. journal \in Seq(Record) /\ Len(journal) \in Nat /\ DOMAIN journal = 1 .. Len(journal)
    BY TypeSplit DEF JournalType
  <1>1. CASE PrepareManifest
    <2>1. /\ UNCHANGED <<index, results, failure, journal, tree>> /\ pc = "prepareManifest"
          /\ \/ /\ manifest' = [prefix   |-> Len(journal),
                                outcomes |-> [i \in Items |-> Disposition(i)],
                                sidecars |-> [i \in Items |-> SidecarEvidence(i)]]
             \/ pc' = "returned"
      BY <1>1 DEF PrepareManifest, At, Return, itemVars, journalVars
    <2>2. ~ManifestLinked'
      BY <2>1 DEF LinkedInv, ManifestLinked, ManifestAt
    <2>3. CASE pc' = "returned"
      BY <2>2, <2>3 DEF SealInv, SealPhases
    <2>4. CASE manifest' = [prefix   |-> Len(journal),
                            outcomes |-> [i \in Items |-> Disposition(i)],
                            sidecars |-> [i \in Items |-> SidecarEvidence(i)]]
      <3>1. /\ [i \in Items |-> Disposition(i)]' = [i \in Items |-> Disposition(i)]
            /\ [i \in Items |-> SidecarEvidence(i)]' = [i \in Items |-> SidecarEvidence(i)]
        BY <2>1 DEF Disposition, SidecarEvidence
      <3>2. manifest'.prefix = Len(journal) /\ Len(journal') = Len(journal)
            /\ DOMAIN journal' = 1 .. Len(journal)
        BY <1>0, <2>1, <2>4
      <3> QED BY <1>0, <2>4, <3>1, <3>2 DEF SealInv
    <2> QED BY <2>1, <2>3, <2>4
  <1>2. CASE ~PrepareManifest /\ Sealed'
    <2>0. ManifestLinked' => ManifestLinked \/ pc = "linkManifest"
      <3>1. CASE Calm
        BY <3>1, CalmManifest
      <3>2. CASE \E l, i : \E k \in {"sidecar", "data", "directory"} : Added(l, k, i)
        BY <3>2, AddedShape, LocationFacts DEF ManifestLinked, ManifestAt
      <3>3. CASE LinkManifest
        BY <3>3 DEF LinkManifest, At
      <3> QED BY <3>1, <3>2, <3>3, TreeSteps
    <2>1. \/ JournalManifestPrepared \/ LinkManifest \/ JournalLinkFailure \/ SyncManifest
          \/ JournalManifestPublished \/ JournalTerminal
          \/ RequestCancel \/ ForeignCreate \/ Crash \/ PowerLoss \/ UNCHANGED vars
      <3>1. CASE ManifestLinked'
        <4>1. pc \in {"syncManifest", "journalManifestPublished", "journalTerminal", "returned",
                      "linkManifest"}
          BY <2>0, <3>1 DEF LinkedInv
        <4> QED BY <1>2, <4>1 DEF Next, WorkerStep, ItemStep, ManifestStep, CreateJob,
                JournalStarted, ItemStart, OpenParents, Stream, JournalPrepared, LinkSidecar,
                SyncSidecar, JournalSidecar, LinkData, PlanDirectory, CreateDirectory,
                BindDirectory, JournalReconciliation, SyncData, JournalPublished,
                JournalItemFailure, ItemsDone, At
      <3>2. CASE pc' \in SealPhases \cup {"journalManifestPrepared"}
        BY <1>2, <3>2, StepTargets DEF Next, WorkerStep, ItemStep, ManifestStep, FailedPhases,
           SealPhases
      <3> QED BY <1>2, <3>1, <3>2
    <2>2. Sealed
      <3>1. CASE RequestCancel \/ ForeignCreate \/ Crash \/ PowerLoss \/ UNCHANGED vars
        <4>1. pc' = pc
          BY <3>1 DEF RequestCancel, ForeignCreate, Crash, PowerLoss, vars
        <4> QED BY <1>2, <2>0, <4>1 DEF SealPhases
      <3>2. CASE \/ JournalManifestPrepared \/ LinkManifest \/ JournalLinkFailure
                 \/ SyncManifest \/ JournalManifestPublished \/ JournalTerminal
        BY <3>2 DEF JournalManifestPrepared, LinkManifest, JournalLinkFailure, SyncManifest,
           JournalManifestPublished, JournalTerminal, At, SealPhases
      <3> QED BY <2>1, <3>1, <3>2
    <2>3. /\ UNCHANGED <<index, results, failure, manifest>>
          /\ UNCHANGED journal \/ \E r : Appended(r) /\ r.kind \in JobKinds
      BY <2>1, SealSteps
    <2>4. /\ [i \in Items |-> Disposition(i)]' = [i \in Items |-> Disposition(i)]
          /\ [i \in Items |-> SidecarEvidence(i)]' = [i \in Items |-> SidecarEvidence(i)]
      BY <2>3 DEF Disposition, SidecarEvidence
    <2>5. /\ manifest.outcomes = [i \in Items |-> Disposition(i)]
          /\ manifest.sidecars = [i \in Items |-> SidecarEvidence(i)]
          /\ manifest.prefix \in 0 .. Len(journal)
          /\ \A n \in DOMAIN journal :
                n > manifest.prefix => journal[n].kind \in JobKinds
      BY <2>2 DEF SealInv
    <2>6. /\ manifest.prefix \in 0 .. Len(journal')
          /\ \A n \in DOMAIN journal' :
                n > manifest.prefix => journal'[n].kind \in JobKinds
      <3>1. CASE UNCHANGED journal
        BY <2>5, <3>1
      <3>2. CASE \E r : Appended(r) /\ r.kind \in JobKinds
        <4>1. PICK r : Appended(r) /\ r.kind \in JobKinds
          BY <3>2
        <4>2. /\ Len(journal') = Len(journal) + 1 /\ Len(journal) \in Nat
              /\ DOMAIN journal' = DOMAIN journal \cup {Len(journal) + 1}
              /\ \A n \in DOMAIN journal : journal'[n] = journal[n]
              /\ journal'[Len(journal) + 1] = r
          BY <4>1, TypeSplit, RecordAdded
        <4> QED BY <2>5, <4>1, <4>2
      <3> QED BY <2>3, <3>1, <3>2
    <2> QED BY <2>3, <2>4, <2>5, <2>6 DEF SealInv
  <1> QED BY <1>1, <1>2 DEF SealInv

-----------------------------------------------------------------------------
(* The invariant.                                                          *)
OutcomeInv == /\ TypeInv /\ ProgressInv /\ ObservedInv /\ RecordInv /\ LinkedInv
              /\ PlaceInv /\ EntryInv /\ ClaimInv /\ SealInv

LEMMA ProgressInit == Init => ProgressInv
  BY DEF Init, ProgressInv, NoFailure, WorkPhases, EarlyPhases, PreparedPhases, PlacedPhases,
     ManifestPhases, SealPhases, FilePhases, DirectoryPhases

LEMMA OutcomeInit == Init => OutcomeInv
  BY TypeInit, ProgressInit, ObservedInit, RecordInit, LinkedInit, PlaceInit, EntryInit,
     ClaimInit, SealInit DEF OutcomeInv

LEMMA OutcomeNext == OutcomeInv /\ [Next]_vars => OutcomeInv'
  <1> SUFFICES ASSUME OutcomeInv, [Next]_vars PROVE OutcomeInv'
    OBVIOUS
  <1> USE DEF OutcomeInv
  <1>1. TypeInv' /\ ProgressInv' /\ ObservedInv'
    BY TypeNext, ProgressNext, ObservedNext
  <1>2. RecordInv' /\ LinkedInv' /\ PlaceInv'
    BY RecordNext, LinkedNext, PlaceNext
  <1>3. EntryInv' /\ ClaimInv' /\ SealInv'
    BY EntryNext, ClaimNext, SealNext
  <1> QED BY <1>1, <1>2, <1>3

LEMMA Outcome == Spec => []OutcomeInv
  BY OutcomeInit, OutcomeNext, PTL DEF Spec

(* A publication record is true of the directory for as long as it was     *)
(* said to be: what write_record appended after a link or a create_dir     *)
(* names an entry that is there, and that survives a power loss when the   *)
(* record says its parent was synchronized.                                *)
THEOREM RecordsAreTrue == Spec => []ClaimsAreTrue
  <1>1. OutcomeInv => ClaimsAreTrue
    <2> SUFFICES ASSUME OutcomeInv, NEW n \in DOMAIN journal, journal[n].kind \in Claims
                 PROVE  \/ IsClaimed(journal[n])
                        \/ power = "lost" /\ ~journal[n].durable
      BY DEF ClaimsAreTrue
    <2>1. ClaimIsTrue(journal[n])
      BY DEF OutcomeInv, ClaimInv, Records
    <2>2. Holds(journal[n].at, ClaimKind(journal[n]), journal[n].item, journal[n].durable)
      BY <2>1 DEF ClaimIsTrue
    <2> QED BY <2>2 DEF Holds, IsClaimed, ClaimKind
  <1> QED BY <1>1, Outcome, PTL

(* A file with zero-filled ranges never has a name without the sidecar     *)
(* that lists them: publish_file records the sidecar before it links the   *)
(* data.                                                                   *)
THEOREM SidecarFirst == Spec => []SidecarBeforeData
  <1>1. OutcomeInv => SidecarBeforeData
    <2> SUFFICES ASSUME OutcomeInv, NEW l \in Locations, tree[l].kind = "data",
                        partial[tree[l].owner]
                 PROVE  \E n \in DOMAIN journal :
                           /\ journal[n].kind = "itemSidecarPublished"
                           /\ journal[n].item = tree[l].owner
                           /\ \/ Shows(journal[n].at, "sidecar", tree[l].owner)
                              \/ power = "lost" /\ ~journal[n].durable
      BY DEF SidecarBeforeData
    <2>1. Logged("itemSidecarPublished", tree[l].owner)
      BY DEF OutcomeInv, EntryInv, EntryIsRight
    <2>2. PICK n \in DOMAIN journal : /\ journal[n].kind = "itemSidecarPublished"
                                      /\ journal[n].item = tree[l].owner
      BY <2>1 DEF Logged
    <2>3. Holds(journal[n].at, "sidecar", tree[l].owner, journal[n].durable)
      <3>1. ClaimIsTrue(journal[n])
        BY DEF OutcomeInv, ClaimInv, Records
      <3> QED BY <2>2, <3>1 DEF ClaimIsTrue, Claims, ClaimKind, EntryOf
    <2> QED BY <2>2, <2>3 DEF Holds
  <1> QED BY <1>1, Outcome, PTL

(* Where an item's report and its names stand.                             *)
LEMMA ItemFacts ==
    ASSUME OutcomeInv, NEW i \in Items
    PROVE  /\ i \in Nat /\ i # 0 /\ index \in Nat /\ Len(results) = index - 1
           /\ Plan[i].kind \in {"file", "directory"}
           /\ i < index => /\ observed[i] = Disposition(i)
                           /\ Disposition(i) = IF Plan[i].kind = "file" THEN "published"
                                               ELSE IF results[i].durable THEN "directoryCreated"
                                               ELSE "directoryNeedsReconciliation"
           /\ i = index /\ failure.error # "none" =>
                 /\ observed[i] = Disposition(i)
                 /\ Disposition(i) = IF failure.published THEN "directoryNeedsReconciliation"
                                     ELSE IF failure.error = "cancelled" THEN "cancelled"
                                     ELSE "failed"
           /\ i = index /\ failure.error = "none" => observed[i] \in {"pending", "started"}
           /\ i > index => Disposition(i) = "notAttempted"
           /\ failure.published => failure.error # "cancelled"
           /\ failure.published => failure.error # "none"
  <1>1. /\ i \in Nat /\ i # 0 /\ index \in Nat /\ Len(results) = index - 1
    BY ControlType DEF Items, OutcomeInv, ProgressInv
  <1>2. Plan[i].kind \in {"file", "directory"}
    <2>1. Plan[i] \in PlanItem
      BY DEF Items
    <2> QED BY <2>1 DEF PlanItem
  <1>3. /\ i < index => Disposition(i) = IF Plan[i].kind = "file" THEN "published"
                                         ELSE IF results[i].durable THEN "directoryCreated"
                                         ELSE "directoryNeedsReconciliation"
        /\ i = index => Disposition(i) = IF failure.published THEN "directoryNeedsReconciliation"
                                     ELSE IF failure.error = "cancelled" THEN "cancelled"
                                     ELSE "failed"
        /\ i > index => Disposition(i) = "notAttempted"
    BY <1>1, <1>2 DEF Disposition
  <1>4. /\ i < index \/ (i = index /\ failure.error # "none") => observed[i] = Disposition(i)
        /\ i = index /\ failure.error = "none" => observed[i] \in {"pending", "started"}
    BY DEF OutcomeInv, ObservedInv
  <1>5. failure.published => failure.error # "cancelled" /\ failure.error # "none"
    BY DEF OutcomeInv, ProgressInv, NoFailure
  <1> QED BY <1>1, <1>2, <1>3, <1>4, <1>5

LEMMA LoggedRecord ==
    ASSUME OutcomeInv, NEW k, NEW i, Logged(k, i)
    PROVE  \E r \in Records : r.kind = k /\ r.item = i /\ RecordIsRight(r) /\ ClaimIsTrue(r)
                              /\ r.durable \in BOOLEAN
  <1>1. PICK n \in DOMAIN journal : journal[n].kind = k /\ journal[n].item = i
    BY DEF Logged
  <1>2. journal[n] \in Records /\ journal[n] \in Record
    BY TypeSplit DEF Records, OutcomeInv, JournalType
  <1>3. journal[n].durable \in BOOLEAN
    BY <1>2 DEF Record
  <1>4. RecordIsRight(journal[n]) /\ ClaimIsTrue(journal[n])
    BY <1>2 DEF OutcomeInv, RecordInv, ClaimInv
  <1> QED BY <1>1, <1>2, <1>3, <1>4

(* What the user is told of an item that did not succeed is true of the    *)
(* disk: a cancelled item has left no name, not even a sidecar's, and a    *)
(* directory that was created is reported failed neither to the observer   *)
(* nor in the journal.                                                     *)
THEOREM ReportsAreTrue == Spec => []ReportsMatchTree
  <1>1. OutcomeInv => ReportsMatchTree
    <2> SUFFICES ASSUME OutcomeInv, NEW l \in Locations
                 PROVE  /\ tree[l].kind # "none" /\ tree[l].owner \in Items =>
                              observed[tree[l].owner] # "cancelled"
                        /\ tree[l].kind = "directory" =>
                              /\ observed[tree[l].owner] # "failed"
                              /\ ~Logged("itemFailed", tree[l].owner)
      BY DEF ReportsMatchTree
    <2>1. EntryIsRight(l)
      BY DEF OutcomeInv, EntryInv
    <2>2. PICK i : i = tree[l].owner
      OBVIOUS
    <2>3. ASSUME i \in Items PROVE observed[i] # "cancelled"
      <3>1. i <= index /\ (i = index => failure.error # "cancelled")
        BY <2>1, <2>2, <2>3 DEF EntryIsRight
      <3> QED BY <2>3, <3>1, ItemFacts
    <2>4. ASSUME tree[l].kind = "directory"
          PROVE  observed[i] # "failed" /\ ~Logged("itemFailed", i)
      <3>1. /\ i \in Items /\ i <= index
            /\ i = index /\ failure.error # "none" => failure.published
        BY <2>1, <2>2, <2>4 DEF EntryIsRight, ItemEntry
      <3>2. observed[i] # "failed"
        BY <3>1, ItemFacts
      <3>3. ~Logged("itemFailed", i)
        <4>1. Logged("itemFailed", i) =>
                 i = index /\ failure.error # "none" /\ ~failure.published
          BY LoggedRecord DEF RecordIsRight
        <4> QED BY <3>1, <4>1
      <3> QED BY <3>2, <3>3
    <2> QED BY <2>2, <2>3, <2>4
  <1> QED BY <1>1, Outcome, PTL

(* The entry of an item that was published is there.                       *)
LEMMA PublishedIsVisible ==
    ASSUME OutcomeInv, NEW i \in Items, i < index
    PROVE  /\ Visible(i) \/ power = "lost"
           /\ results[i].durable => Visible(i)
  <1>1. Logged("itemPublished", i)
    BY DEF OutcomeInv, RecordInv
  <1>2. PICK r \in Records : /\ r.kind = "itemPublished" /\ r.item = i /\ RecordIsRight(r)
                             /\ ClaimIsTrue(r) /\ r.durable \in BOOLEAN
    BY <1>1, LoggedRecord
  <1>3. r.durable = results[i].durable
    BY <1>2 DEF RecordIsRight
  <1>4. r.at \in Locations /\ Holds(r.at, Final(i), i, r.durable)
    BY <1>2, ItemFacts DEF ClaimIsTrue, Claims, ClaimKind, EntryOf, Final
  <1>5. Shows(r.at, Final(i), i) => Visible(i)
    BY <1>4 DEF Shows, Visible, Final
  <1> QED BY <1>2, <1>3, <1>4, <1>5 DEF Holds

(* The prefix of the journal the manifest is bound to has every record of  *)
(* an item.                                                                *)
LEMMA PrefixIsJournal ==
    ASSUME OutcomeInv, ManifestLinked, NEW i
    PROVE  /\ \A k : k \notin JobKinds => (InPrefix(k, i) <=> Logged(k, i))
           /\ DurableInPrefix(i) <=>
                 \E r \in Records : r.kind = "itemPublished" /\ r.item = i /\ r.durable
  <1>1. /\ manifest.prefix \in 0 .. Len(journal) /\ DOMAIN journal = 1 .. Len(journal)
        /\ Len(journal) \in Nat
        /\ \A n \in DOMAIN journal : n > manifest.prefix => journal[n].kind \in JobKinds
    BY TypeSplit DEF OutcomeInv, SealInv, JournalType
  <1>2. \A n : /\ n \in 1 .. manifest.prefix => n \in DOMAIN journal
               /\ n \in DOMAIN journal /\ journal[n].kind \notin JobKinds
                     => n \in 1 .. manifest.prefix
    BY <1>1
  <1>3. \A k : k \notin JobKinds => (InPrefix(k, i) <=> Logged(k, i))
    BY <1>2 DEF InPrefix, Logged
  <1>4. DurableInPrefix(i) <=>
           \E r \in Records : r.kind = "itemPublished" /\ r.item = i /\ r.durable
    BY <1>2 DEF DurableInPrefix, Records, JobKinds
  <1> QED BY <1>3, <1>4

LEMMA OutcomeOfItem ==
    ASSUME OutcomeInv, ManifestLinked, NEW i \in Items
    PROVE  OutcomeInPrefix(i) = Disposition(i)
  <1>1. \A k : k \notin JobKinds => (InPrefix(k, i) <=> Logged(k, i))
    BY PrefixIsJournal
  <1>2. /\ Logged("itemFailed", i) =>
              i = index /\ failure.error \notin {"none", "cancelled"} /\ ~failure.published
        /\ Logged("itemCancelled", i) => i = index /\ failure.error = "cancelled"
        /\ Logged("directoryReconciliationRequired", i) => i = index /\ failure.published
        /\ Logged("itemPublished", i) => i < index
    BY LoggedRecord DEF RecordIsRight
  <1>3. /\ Concluded
        /\ failure.error = "none" => index = Len(Plan) + 1
    BY DEF OutcomeInv, LinkedInv
  <1>4. CASE i < index
    <2>1. Logged("itemPublished", i)
      BY <1>4 DEF OutcomeInv, RecordInv
    <2>2. DurableInPrefix(i) <=> results[i].durable
      <3>1. \A r \in Records : r.kind = "itemPublished" /\ r.item = i =>
                                  r.durable = results[i].durable
        BY DEF OutcomeInv, RecordInv, RecordIsRight
      <3>2. \E r \in Records : r.kind = "itemPublished" /\ r.item = i
        BY <2>1, LoggedRecord
      <3> QED BY <3>1, <3>2, PrefixIsJournal
    <2>3. ~Logged("itemFailed", i) /\ ~Logged("itemCancelled", i)
          /\ ~Logged("directoryReconciliationRequired", i)
      BY <1>2, <1>4, ItemFacts
    <2>4. OutcomeInPrefix(i) = IF Plan[i].kind = "file" THEN "published"
                               ELSE IF DurableInPrefix(i) THEN "directoryCreated"
                               ELSE "directoryNeedsReconciliation"
      BY <1>1, <2>1, <2>3 DEF OutcomeInPrefix, JobKinds
    <2> QED BY <1>4, <2>2, <2>4, ItemFacts
  <1>5. CASE i = index
    <2>1. failure.error # "none"
      BY <1>3, <1>5, ItemFacts, PlanLength DEF Items
    <2>2. Logged(Conclusion, i)
      BY <1>3, <1>5, <2>1 DEF Concluded
    <2>3. CASE failure.published
      BY <1>1, <1>2, <1>5, <2>1, <2>2, <2>3, ItemFacts DEF OutcomeInPrefix, Conclusion, JobKinds
    <2>4. CASE ~failure.published /\ failure.error = "cancelled"
      BY <1>1, <1>2, <1>5, <2>1, <2>2, <2>4, ItemFacts DEF OutcomeInPrefix, Conclusion, JobKinds
    <2>5. CASE ~failure.published /\ failure.error # "cancelled"
      BY <1>1, <1>2, <1>5, <2>1, <2>2, <2>5, ItemFacts DEF OutcomeInPrefix, Conclusion, JobKinds
    <2> QED BY <2>3, <2>4, <2>5
  <1>6. CASE i > index
    <2>1. ~Logged("itemFailed", i) /\ ~Logged("itemCancelled", i)
          /\ ~Logged("directoryReconciliationRequired", i) /\ ~Logged("itemPublished", i)
      BY <1>2, <1>6, ItemFacts
    <2> QED BY <1>1, <1>6, <2>1, ItemFacts DEF OutcomeInPrefix, JobKinds
  <1> QED BY <1>4, <1>5, <1>6, ItemFacts

(* A linked manifest, the journal prefix it is bound to and the directory  *)
(* tell one story: publish_final_manifest names for every item what the    *)
(* journal concludes, an item it calls failed, cancelled or not attempted  *)
(* has no final name, one it calls published has one, and every sidecar    *)
(* that was linked is named.                                               *)
THEOREM ManifestTellsTheTruth == Spec => []ManifestIsTrue
  <1>1. OutcomeInv => ManifestIsTrue
    <2> SUFFICES ASSUME OutcomeInv, ManifestLinked PROVE ManifestIsTrue
      BY DEF ManifestIsTrue
    <2>1. /\ manifest.outcomes = [i \in Items |-> Disposition(i)]
          /\ manifest.sidecars = [i \in Items |-> SidecarEvidence(i)]
          /\ Concluded /\ (failure.error = "none" => index = Len(Plan) + 1)
      BY DEF OutcomeInv, SealInv, LinkedInv
    <2>2. ASSUME NEW i \in Items
          PROVE  /\ manifest.outcomes[i] = OutcomeInPrefix(i)
                 /\ IF manifest.outcomes[i] \in {"failed", "cancelled", "notAttempted"}
                    THEN ~Visible(i)
                    ELSE Visible(i) \/ power = "lost"
      <3>1. manifest.outcomes[i] = Disposition(i)
        BY <2>1
      <3>2. i = index => failure.error # "none"
        BY <2>1, ItemFacts, PlanLength DEF Items
      <3>3. ASSUME Disposition(i) \in {"failed", "cancelled", "notAttempted"}, NEW l \in Locations,
                   tree[l].owner = i, tree[l].kind \in {"data", "directory"}
            PROVE  FALSE
        <4>1. EntryIsRight(l)
          BY DEF OutcomeInv, EntryInv
        <4>2. i <= index /\ (i = index => failure.published)
          BY <3>2, <3>3, <4>1 DEF EntryIsRight, ItemEntry
        <4> QED BY <3>2, <3>3, <4>2, ItemFacts
      <3>4. ASSUME Disposition(i) \notin {"failed", "cancelled", "notAttempted"}
            PROVE  Visible(i) \/ power = "lost"
        <4>1. i < index \/ (i = index /\ failure.published)
          BY <3>2, <3>4, ItemFacts
        <4>2. CASE i = index /\ failure.published
          BY <4>2 DEF OutcomeInv, PlaceInv, Holds, Shows, Visible
        <4> QED BY <4>1, <4>2, PublishedIsVisible
      <3> QED BY <3>1, <3>3, <3>4, OutcomeOfItem DEF Visible
    <2>3. ASSUME NEW l \in Locations, tree[l].kind = "sidecar"
          PROVE  manifest.sidecars[tree[l].owner] = l
      <3>1. PICK i : i = tree[l].owner
        OBVIOUS
      <3>2. i \in Items /\ i <= index /\ l = (IF i < index THEN results[i].sidecar ELSE sidecar)
        BY <2>3, <3>1 DEF OutcomeInv, EntryInv, EntryIsRight, ItemEntry
      <3>3. i = index => failure.error # "none" /\ failure.sidecar = sidecar
        BY <2>1, <3>2, ItemFacts, PlanLength DEF Items, OutcomeInv, ProgressInv
      <3>4. SidecarEvidence(i) = l
        BY <3>2, <3>3, ItemFacts DEF SidecarEvidence
      <3> QED BY <2>1, <3>1, <3>2, <3>4
    <2> QED BY <2>2, <2>3 DEF ManifestIsTrue
  <1> QED BY <1>1, Outcome, PTL

(* Success means everything: a call that returned Ok announced its         *)
(* manifest, left it and every item in place and told the observer of each *)
(* item; and what a record jobCompleted calls durable survives a power     *)
(* loss.                                                                   *)
THEOREM SuccessMeansEverything == Spec => []SuccessIsComplete
  <1>1. OutcomeInv => SuccessIsComplete
    <2> SUFFICES ASSUME OutcomeInv PROVE SuccessIsComplete
      OBVIOUS
    <2>1. ASSUME returned = "ok"
          PROVE  /\ announced
                 /\ power # "lost" => AllVisible
                 /\ \A i \in Items : observed[i] \in {"published", "directoryCreated",
                                                      "directoryNeedsReconciliation"}
      <3>1. announced /\ index = Len(Plan) + 1
        BY <2>1 DEF OutcomeInv, ProgressInv
      <3>2. \A i \in Items : i < index
        BY <3>1, PlanLength DEF Items
      <3>3. power # "lost" => ManifestLinked
        BY <2>1 DEF OutcomeInv, PlaceInv, Holds, Shows, ManifestLinked
      <3>4. power # "lost" => AllVisible
        BY <3>2, <3>3, PublishedIsVisible DEF AllVisible
      <3>5. \A i \in Items : observed[i] \in {"published", "directoryCreated",
                                              "directoryNeedsReconciliation"}
        BY <3>2, ItemFacts
      <3> QED BY <3>1, <3>4, <3>5
    <2>2. ASSUME NEW n \in DOMAIN journal, journal[n].kind = "jobCompleted", journal[n].durable
          PROVE  AllVisible
      <3>1. RecordIsRight(journal[n]) /\ ClaimIsTrue(journal[n])
        BY DEF OutcomeInv, RecordInv, ClaimInv, Records
      <3>2. index = Len(Plan) + 1 /\ \A i \in Items : results[i].durable
        BY <2>2, <3>1 DEF RecordIsRight
      <3>3. ManifestLinked
        BY <2>2, <3>1 DEF ClaimIsTrue, Holds, Shows, ManifestLinked
      <3>4. \A i \in Items : i < index
        BY <3>2, PlanLength DEF Items
      <3> QED BY <3>2, <3>3, <3>4, PublishedIsVisible DEF AllVisible
    <2> QED BY <2>1, <2>2 DEF SuccessIsComplete
  <1> QED BY <1>1, Outcome, PTL
-----------------------------------------------------------------------------
(***************************************************************************)
(* The two refinements: the engine implements PublicationPromise, step by  *)
(* step, and reports to its observer as EngineReports says.  Both follow   *)
(* from OutcomeInv and one lemma for each kind of step.                    *)
(***************************************************************************)

(* The state of the promise.                                               *)
Intended == {i \in Items : Logged("itemPrepared", i)}
Shown    == {i \in Items : Visible(i)}
Vouched  == {i \in Items : Settled(i)}
Told     == IF returned \in {"none", "ok"} THEN returned ELSE "error"

PromiseUnchanged == UNCHANGED <<Intended, Shown, Vouched, ManifestLinked>>

LEMMA PromiseInit == Init => Promise!Init
  <1> SUFFICES ASSUME Init PROVE Promise!Init
    OBVIOUS
  <1>1. /\ journal = <<>> /\ returned = "none" /\ power = "on"
        /\ \A l \in Locations : tree[l] = NoEntry
    BY DEF Init
  <1>2. \A i : ~Logged("itemPrepared", i) /\ ~Settled(i)
    BY <1>1 DEF Logged, Settled
  <1>3. \A i : ~Visible(i)
    BY <1>1 DEF Visible, NoEntry
  <1>4. ~ManifestLinked
    BY <1>1, LocationFacts DEF ManifestLinked, NoEntry
  <1> QED BY <1>1, <1>2, <1>3, <1>4 DEF Promise!Init

(* Where each item stands with the promise.                                *)
LEMMA PromiseFacts ==
    ASSUME OutcomeInv, NEW i \in Items
    PROVE  /\ i < index => i \in Intended /\ i \in Vouched
           /\ i > index => i \notin Intended /\ i \notin Shown /\ i \notin Vouched
           /\ i = index => /\ pc \in EarlyPhases => i \notin Intended
                           /\ i \in Vouched <=> Logged("directoryReconciliationRequired", i)
                           /\ i \in Vouched => failure.published
                           /\ i \in Shown => \/ pc \in PlacedPhases \cup {"journalItemFailure", "returned"}
                                             \/ failure.published
                           /\ pc \in PlacedPhases /\ power = "on" => i \in Shown
           /\ i \in Nat /\ index \in Nat
  <1>1. i \in Nat /\ index \in Nat
    BY ItemFacts
  <1>2. i < index => Logged("itemPrepared", i) /\ Logged("itemPublished", i)
    BY DEF OutcomeInv, RecordInv
  <1>3. /\ \A k : Logged(k, i) => i <= index /\ (i = index => pc \notin EarlyPhases)
        /\ Logged("itemPublished", i) => i < index
        /\ Logged("directoryReconciliationRequired", i) => i = index /\ failure.published
    BY LoggedRecord DEF RecordIsRight
  <1>4. ASSUME Visible(i)
        PROVE  /\ i <= index
               /\ i = index => \/ pc \in PlacedPhases \cup {"journalItemFailure", "returned"}
                               \/ failure.published
    <2>1. PICK l \in Locations : tree[l].owner = i /\ tree[l].kind \in {"data", "directory"}
      BY <1>4 DEF Visible
    <2>2. EntryIsRight(l)
      BY DEF OutcomeInv, EntryInv
    <2> QED BY <2>1, <2>2 DEF EntryIsRight, ItemEntry
  <1>5. ASSUME i = index, pc \in PlacedPhases, power = "on"
        PROVE  Visible(i)
    <2>1. here \in Locations
      BY <1>5, ParentCandidate DEF OutcomeInv, PlaceInv, PlacedPhases, ItemPhases
    <2>2. Shows(here, Final(index), index)
      BY <1>5 DEF OutcomeInv, PlaceInv, Holds
    <2> QED BY <1>5, <2>1, <2>2 DEF Shows, Visible, Final
  <1> QED BY <1>1, <1>2, <1>3, <1>4, <1>5 DEF Intended, Shown, Vouched, Settled

(* What a step does to the journal, as the promise sees it.                *)
Keys == {"itemPrepared", "itemPublished", "directoryReconciliationRequired"}

LEMMA KeySteps ==
    ASSUME TypeInv, [Next]_vars
    PROVE  \/ UNCHANGED journal
           \/ \E r : /\ Appended(r)
                     /\ \/ r.kind \notin Keys
                        \/ JournalPrepared /\ r = Rec("itemPrepared", index, NoLocation, FALSE)
                        \/ JournalPublished /\ r = Rec("itemPublished", index, here, synced)
                        \/ /\ JournalReconciliation
                           /\ r = Rec("directoryReconciliationRequired", index, here, FALSE)
  <1>0. \A r, e : AppendFailed(r, e) => UNCHANGED journal
    BY AppendError
  <1>1. CASE JournalPrepared
    BY <1>0, <1>1 DEF JournalPrepared
  <1>2. CASE JournalPublished
    BY <1>0, <1>2 DEF JournalPublished
  <1>3. CASE JournalReconciliation
    BY <1>0, <1>3 DEF JournalReconciliation
  <1>4. CASE JournalTerminal \/ JournalManifestPrepared \/ JournalLinkFailure
             \/ JournalManifestPublished
    <2>1. UNCHANGED journal \/ \E r : Appended(r) /\ r.kind \in JobKinds
      BY <1>4, SealSteps
    <2> QED BY <2>1 DEF JobKinds, Keys
  <1>5. CASE PlanDirectory \/ JournalStarted \/ JournalSidecar
    <2>1. \A i, l, d : /\ Rec("directoryPublicationPlanned", i, l, d).kind \notin Keys
                       /\ Rec("jobStarted", i, l, d).kind \notin Keys
                       /\ Rec("itemSidecarPublished", i, l, d).kind \notin Keys
      BY DEF Rec, Keys
    <2>2. CASE PlanDirectory
      BY <1>0, <2>1, <2>2 DEF PlanDirectory
    <2>3. CASE JournalStarted
      BY <1>0, <2>1, <2>3 DEF JournalStarted
    <2>4. CASE JournalSidecar
      BY <1>0, <2>1, <2>4 DEF JournalSidecar
    <2> QED BY <1>5, <2>2, <2>3, <2>4
  <1>6. CASE JournalItemFailure
    BY <1>0, <1>6 DEF JournalItemFailure, Rec, Keys
  <1>7. \/ UNCHANGED journal
        \/ JournalSidecar \/ JournalPublished \/ JournalManifestPublished \/ JournalTerminal
        \/ JournalPrepared \/ PlanDirectory \/ JournalReconciliation \/ JournalStarted
        \/ JournalItemFailure \/ JournalManifestPrepared \/ JournalLinkFailure
    BY DEF Next, WorkerStep, ItemStep, ManifestStep, CreateJob, ItemStart, OpenParents, Stream,
       LinkSidecar, SyncSidecar, LinkData, CreateDirectory, BindDirectory, SyncData,
       ItemsDone, PrepareManifest, LinkManifest, SyncManifest, RequestCancel, ForeignCreate,
       Crash, PowerLoss, vars, journalVars
  <1> QED BY <1>1, <1>2, <1>3, <1>4, <1>5, <1>6, <1>7

LEMMA RecordsUnchanged ==
    ASSUME UNCHANGED journal
    PROVE  UNCHANGED <<Intended, Vouched>>
  BY RecordKept DEF Intended, Vouched, Settled

LEMMA RecordsAdded ==
    ASSUME TypeInv, NEW r, Appended(r)
    PROVE  /\ r.kind \notin Keys => UNCHANGED <<Intended, Vouched>>
           /\ r.kind = "itemPrepared" /\ r.item \in Items =>
                 Intended' = Intended \cup {r.item} /\ UNCHANGED Vouched
           /\ r.kind \in Keys \ {"itemPrepared"} /\ r.item \in Items =>
                 Vouched' = Vouched \cup {r.item} /\ UNCHANGED Intended
  <1>1. \A k, i : Logged(k, i)' <=> Logged(k, i) \/ (r.kind = k /\ r.item = i)
    BY TypeSplit, RecordAdded
  <1> QED BY <1>1 DEF Intended, Vouched, Settled, Keys

(* and to the directory.                                                   *)
LEMMA CalmUnchanged ==
    ASSUME TypeInv, Calm, power' # "lost"
    PROVE  UNCHANGED <<Shown, ManifestLinked>>
  <1>1. \A l \in Locations : Kept(l) \/ Other(l)
    BY DEF Calm, Lost
  <1>2. \A l \in Locations : \A k \in {"data", "directory", "manifest"} :
           tree'[l].kind = k <=> tree[l].kind = k
    BY <1>1 DEF Kept, Other, Free
  <1>3. \A l \in Locations : tree[l].kind \in {"data", "directory", "manifest"} =>
           tree'[l].owner = tree[l].owner
    BY <1>1 DEF Kept, Other, Free
  <1>4. ManifestLinked' <=> ManifestLinked
    BY <1>2, LocationFacts DEF ManifestLinked, ManifestAt
  <1>5. \A i : Visible(i)' <=> Visible(i)
    BY <1>2, <1>3 DEF Visible
  <1> QED BY <1>4, <1>5 DEF Shown, ManifestLinked

LEMMA AddedShown ==
    ASSUME TypeInv, NEW l, NEW k, NEW i \in Items, Added(l, k, i)
    PROVE  /\ k \in {"data", "directory"} => Shown' = Shown \cup {i} /\ UNCHANGED ManifestLinked
           /\ k = "sidecar" => UNCHANGED <<Shown, ManifestLinked>>
  <1>1. /\ tree'[l].kind = k /\ tree'[l].owner = i
        /\ \A m \in Locations \ {l} : tree'[m] = tree[m]
        /\ tree[l].kind = "none" /\ l \in Locations
    BY AddedShape
  <1>2. k \in {"data", "directory", "sidecar"} => (ManifestLinked' <=> ManifestLinked)
    BY <1>1, LocationFacts DEF ManifestLinked, ManifestAt
  <1>3. k \in {"data", "directory"} => \A j : Visible(j)' <=> Visible(j) \/ j = i
    BY <1>1 DEF Visible
  <1>4. k = "sidecar" => \A j : Visible(j)' <=> Visible(j)
    BY <1>1 DEF Visible
  <1> QED BY <1>2, <1>3, <1>4 DEF Shown, ManifestLinked

-----------------------------------------------------------------------------
(* Each step is a step of the promise.                                     *)

(* A worker works only while the power is on and the call has not returned, *)
LEMMA WorkerOn ==
    ASSUME OutcomeInv, WorkerStep
    PROVE  power = "on" /\ power' = "on" /\ returned = "none"
  <1>1. power = "on" /\ pc # "returned"
    BY DEF WorkerStep, ItemStep, ManifestStep, CreateJob, JournalStarted, ItemStart, OpenParents,
       Stream, JournalPrepared, LinkSidecar, SyncSidecar, JournalSidecar, LinkData,
       PlanDirectory, CreateDirectory, BindDirectory, JournalReconciliation, SyncData,
       JournalPublished, JournalItemFailure, ItemsDone, PrepareManifest,
       JournalManifestPrepared, LinkManifest, JournalLinkFailure, SyncManifest,
       JournalManifestPublished, JournalTerminal, At
  <1>2. UNCHANGED power
    BY DEF WorkerStep, ItemStep, ManifestStep, CreateJob, JournalStarted, ItemStart, OpenParents,
       Stream, JournalPrepared, LinkSidecar, SyncSidecar, JournalSidecar, LinkData,
       PlanDirectory, CreateDirectory, BindDirectory, JournalReconciliation, SyncData,
       JournalPublished, JournalItemFailure, ItemsDone, PrepareManifest,
       JournalManifestPrepared, LinkManifest, JournalLinkFailure, SyncManifest,
       JournalManifestPublished, JournalTerminal, envVars
  <1> QED BY <1>1, <1>2 DEF OutcomeInv, ProgressInv

(* and only its last record can make it answer "ok".                       *)
LEMMA WorkerAnswers ==
    ASSUME OutcomeInv, WorkerStep, ~JournalTerminal
    PROVE  Told' \in {"none", "error"} /\ (Told' = "none" <=> pc' # "returned") /\ Told = "none"
  <1>1. returned = "none"
    BY WorkerOn
  <1>2. Ends
    BY StepTargets DEF WorkerStep, ItemStep, ManifestStep
  <1>3. [Next]_vars
    BY DEF Next
  <1>4. ProgressInv'
    BY <1>3, OutcomeNext DEF OutcomeInv
  <1>5. returned' = "none" <=> pc' # "returned"
    BY <1>4 DEF ProgressInv
  <1> QED BY <1>1, <1>2, <1>5 DEF Ends, Errors, Told

LEMMA AppendedOnly ==
    ASSUME TypeInv, NEW r, Appended(r)
    PROVE  \A q, e : ~AppendFailed(q, e)
  <1>1. Len(journal') # Len(journal)
    BY TypeSplit, RecordAdded
  <1>2. journal' # journal
    BY <1>1
  <1> QED BY <1>2, AppendError

(* A record of one of the keys is a step of its own.                       *)
LEMMA PromiseIntend ==
    ASSUME OutcomeInv, JournalPrepared, NEW r, Appended(r),
           r = Rec("itemPrepared", index, NoLocation, FALSE)
    PROVE  Promise!Intend(index) /\ index \in Items
  <1>1. /\ WorkerStep /\ [Next]_vars /\ pc = "journalPrepared" /\ UNCHANGED tree
        /\ ~JournalTerminal
    BY DEF Next, WorkerStep, ItemStep, JournalPrepared, JournalTerminal, At
  <1>2. pc' # "returned"
    <2>1. \E s : (Appended(s) /\ Goto(IF Item.kind = "directory" THEN "planDirectory"
                                      ELSE IF partial[index] THEN "linkSidecar" ELSE "linkData"))
                 \/ \E e \in Errors : AppendFailed(s, e)
      BY DEF JournalPrepared
    <2> QED BY <2>1, AppendedOnly DEF OutcomeInv, Goto
  <1>3. index \in Items
    BY <1>1, ControlType DEF OutcomeInv, ItemPhases
  <1>4. ~ManifestLinked /\ ~failure.published
    BY <1>1 DEF OutcomeInv, LinkedInv, ProgressInv, WorkPhases, EarlyPhases, NoFailure
  <1>5. Intended = Vouched /\ index \notin Intended
    <2>1. \A i \in Items : i \in Intended <=> i < index
      BY <1>1, <1>4, PromiseFacts DEF EarlyPhases
    <2>2. \A i \in Items : i \in Vouched <=> i < index
      BY <1>1, <1>4, PromiseFacts DEF EarlyPhases
    <2>3. index \in Nat
      BY PromiseFacts, <1>3
    <2>4. Intended \subseteq Items /\ Vouched \subseteq Items
      BY DEF Intended, Vouched
    <2>5. index \notin Intended
      BY <1>3, <2>1, <2>3
    <2> QED BY <2>1, <2>2, <2>4, <2>5
  <1>6. r.kind = "itemPrepared" /\ r.item = index
    BY DEF Rec
  <1>7. Intended' = Intended \cup {index} /\ UNCHANGED Vouched
    BY <1>3, <1>6, RecordsAdded DEF OutcomeInv
  <1>8. UNCHANGED <<Shown, ManifestLinked>>
    BY <1>1 DEF Shown, Visible, ManifestLinked
  <1>9. power = "on" /\ power' = "on" /\ Told = "none" /\ Told' = "none"
    BY <1>1, <1>2, WorkerOn, WorkerAnswers
  <1> QED BY <1>3, <1>4, <1>5, <1>7, <1>8, <1>9
          DEF Promise!Intend, Promise!Open, Intended, Vouched, Shown, Told

LEMMA PromiseVouch ==
    ASSUME OutcomeInv, NEW r, Appended(r),
           \/ JournalPublished /\ r = Rec("itemPublished", index, here, synced)
           \/ JournalReconciliation /\ r = Rec("directoryReconciliationRequired", index, here, FALSE)
    PROVE  Promise!Vouch(index) /\ index \in Items
  <1>1. /\ WorkerStep /\ [Next]_vars /\ pc \in PlacedPhases /\ UNCHANGED tree
        /\ ~JournalTerminal
    BY DEF Next, WorkerStep, ItemStep, JournalPublished, JournalReconciliation,
       JournalTerminal, At, PlacedPhases
  <1>2. pc' # "returned"
    <2>1. CASE JournalPublished
      <3>1. Goto("itemStart") \/ \E s : \E e \in Errors : AppendFailed(s, e)
        BY <2>1 DEF JournalPublished
      <3> QED BY <3>1, AppendedOnly DEF OutcomeInv, Goto
    <2>2. CASE JournalReconciliation
      <3>1. FailItem("needsReconciliation", TRUE)
        BY <2>2 DEF JournalReconciliation
      <3> QED BY <3>1, AppendDone DEF FailItem, Goto
    <2> QED BY <2>1, <2>2
  <1>3. index \in Items
    BY <1>1, ControlType DEF OutcomeInv, ItemPhases, PlacedPhases
  <1>4. ~ManifestLinked /\ ~failure.published
    BY <1>1 DEF OutcomeInv, LinkedInv, ProgressInv, WorkPhases, PlacedPhases, NoFailure
  <1>5. power = "on" /\ power' = "on" /\ Told = "none" /\ Told' = "none"
    BY <1>1, <1>2, WorkerOn, WorkerAnswers
  <1>6. index \in Shown /\ index \notin Vouched
    BY <1>1, <1>3, <1>4, <1>5, PromiseFacts
  <1>7. r.kind \in Keys \ {"itemPrepared"} /\ r.item = index
    BY DEF Rec, Keys
  <1>8. Vouched' = Vouched \cup {index} /\ UNCHANGED Intended
    BY <1>3, <1>7, RecordsAdded DEF OutcomeInv
  <1>9. UNCHANGED <<Shown, ManifestLinked>>
    BY <1>1 DEF Shown, Visible, ManifestLinked
  <1> QED BY <1>3, <1>4, <1>5, <1>6, <1>8, <1>9
          DEF Promise!Vouch, Promise!Open, Intended, Vouched, Shown, Told

LEMMA PromiseShow ==
    ASSUME OutcomeInv, NEW l, NEW k \in {"data", "directory"}, Added(l, k, index),
           \/ LinkData /\ pc' = "syncData"
           \/ CreateDirectory /\ pc' = "bindDirectory"
    PROVE  Promise!Show(index) /\ index \in Items
  <1>1. /\ WorkerStep /\ [Next]_vars /\ pc \in PreparedPhases /\ UNCHANGED journal
        /\ ~JournalTerminal /\ pc' # "returned"
    BY DEF Next, WorkerStep, ItemStep, LinkData, CreateDirectory, JournalTerminal, At,
       PreparedPhases, journalVars
  <1>2. index \in Items
    BY <1>1, ControlType DEF OutcomeInv, ItemPhases, PreparedPhases
  <1>3. ~ManifestLinked /\ ~failure.published
    BY <1>1 DEF OutcomeInv, LinkedInv, ProgressInv, WorkPhases, PreparedPhases, NoFailure
  <1>4. power = "on" /\ power' = "on" /\ Told = "none" /\ Told' = "none"
    BY <1>1, WorkerOn, WorkerAnswers
  <1>5. index \in Intended /\ index \notin Vouched
    <2>1. Logged("itemPrepared", index)
      BY <1>1 DEF OutcomeInv, RecordInv
    <2> QED BY <1>2, <1>3, <2>1, PromiseFacts DEF Intended
  <1>6. Shown' = Shown \cup {index} /\ UNCHANGED ManifestLinked
    BY <1>2, AddedShown DEF OutcomeInv
  <1>7. UNCHANGED <<Intended, Vouched>>
    BY <1>1, RecordsUnchanged
  <1> QED BY <1>2, <1>3, <1>4, <1>5, <1>6, <1>7
          DEF Promise!Show, Promise!Open, Intended, Vouched, Shown, Told

LEMMA PromiseSeal ==
    ASSUME OutcomeInv, LinkManifest, pc' = "syncManifest", Added(ManifestAt, "manifest", 0)
    PROVE  Promise!Seal
  <1>1. /\ WorkerStep /\ [Next]_vars /\ pc = "linkManifest" /\ UNCHANGED journal
        /\ ~JournalTerminal /\ pc' # "returned"
    BY DEF Next, WorkerStep, ManifestStep, LinkManifest, JournalTerminal, At, journalVars
  <1>2. power = "on" /\ power' = "on" /\ Told = "none" /\ Told' = "none"
    BY <1>1, WorkerOn, WorkerAnswers
  <1>3. /\ tree'[ManifestAt].kind = "manifest" /\ tree[ManifestAt].kind = "none"
        /\ \A m \in Locations \ {ManifestAt} : tree'[m] = tree[m]
    BY AddedShape DEF OutcomeInv
  <1>4. ~ManifestLinked /\ ManifestLinked'
    BY <1>3 DEF ManifestLinked
  <1>5. UNCHANGED Shown
    BY <1>3 DEF Shown, Visible
  <1>6. UNCHANGED <<Intended, Vouched>>
    BY <1>1, RecordsUnchanged
  <1>7. Shown \subseteq Vouched
    <2> SUFFICES ASSUME NEW i \in Items, i \in Shown PROVE i \in Vouched
      BY DEF Shown
    <2>1. i < index => i \in Vouched
      BY PromiseFacts
    <2>2. ~(i > index)
      BY PromiseFacts
    <2>3. ASSUME i = index PROVE i \in Vouched
      <3>1. failure.published
        BY <1>1, <2>3, PromiseFacts DEF PlacedPhases
      <3>2. failure.error # "none"
        BY <3>1 DEF OutcomeInv, ProgressInv, NoFailure
      <3>3. Concluded
        BY <1>1 DEF OutcomeInv, RecordInv, SealPhases
      <3>4. Logged("directoryReconciliationRequired", index)
        BY <3>1, <3>2, <3>3 DEF Concluded, Conclusion
      <3> QED BY <2>3, <3>4, PromiseFacts
    <2>4. i \in Nat /\ index \in Nat
      BY PromiseFacts
    <2> QED BY <2>1, <2>2, <2>3, <2>4
  <1> QED BY <1>2, <1>4, <1>5, <1>6, <1>7
          DEF Promise!Seal, Promise!Open, Intended, Vouched, Shown, Told, ManifestLinked

LEMMA PromiseAnswer ==
    ASSUME OutcomeInv, JournalTerminal
    PROVE  \E a \in {"ok", "error"} : Promise!Answer(a)
  <1>1. WorkerStep /\ [Next]_vars /\ pc = "journalTerminal" /\ UNCHANGED tree
    BY DEF Next, WorkerStep, ManifestStep, JournalTerminal, At
  <1>2. power = "on" /\ power' = "on" /\ Told = "none"
    BY <1>1, WorkerOn DEF Told
  <1>3. UNCHANGED <<Shown, ManifestLinked>>
    BY <1>1 DEF Shown, Visible, ManifestLinked
  <1>4. UNCHANGED <<Intended, Vouched>>
    <2>1. UNCHANGED journal \/ \E r : Appended(r) /\ r.kind \in JobKinds
      BY <1>1, SealSteps DEF OutcomeInv
    <2>2. CASE UNCHANGED journal
      BY <2>2, RecordsUnchanged
    <2>3. ASSUME NEW r, Appended(r), r.kind \in JobKinds
          PROVE  UNCHANGED <<Intended, Vouched>>
      BY <2>3, RecordsAdded DEF OutcomeInv, JobKinds, Keys
    <2> QED BY <2>1, <2>2, <2>3
  <1>5. \/ Told' = "error"
        \/ Told' = "ok" /\ failure.error = "none"
    <2>1. failure.error \in Errors \cup {"none"}
      BY ControlType DEF OutcomeInv
    <2>2. \/ returned' = IF failure.error = "none" THEN "ok" ELSE failure.error
          \/ returned' = "needsReconciliation"
      BY DEF JournalTerminal, Return
    <2> QED BY <2>1, <2>2 DEF Told, Errors
  <1>6. ASSUME failure.error = "none"
        PROVE  ManifestLinked /\ Vouched = Items
    <2>1. ManifestLinked
      BY <1>1, <1>2 DEF OutcomeInv, PlaceInv, Holds, Shows, ManifestLinked
    <2>2. index = Len(Plan) + 1
      BY <1>1, <1>6 DEF OutcomeInv, ProgressInv, ManifestPhases, SealPhases
    <2>3. ASSUME NEW i \in Items PROVE i \in Vouched
      <3>1. i < index
        BY <2>2, PlanLength DEF Items
      <3> QED BY <3>1, PromiseFacts
    <2> QED BY <2>1, <2>3 DEF Vouched
  <1> QED BY <1>2, <1>3, <1>4, <1>5, <1>6
          DEF Promise!Answer, Intended, Vouched, Shown, Told, ManifestLinked

LEMMA PromisePower ==
    ASSUME OutcomeInv, PowerLoss
    PROVE  Promise!LosePower
  <1>1. /\ power # "lost" /\ power' = "lost" /\ UNCHANGED <<journal, returned>>
        /\ \A l \in Locations : tree'[l] \in {tree[l], NoEntry}
    BY DEF PowerLoss
  <1>2. UNCHANGED <<Intended, Vouched>>
    BY <1>1, RecordsUnchanged
  <1>3. Shown' \subseteq Shown
    BY <1>1 DEF Shown, Visible, NoEntry
  <1>4. ManifestLinked' \in {ManifestLinked, FALSE}
    <2>1. tree'[ManifestAt].kind = "manifest" => tree[ManifestAt].kind = "manifest"
      BY <1>1, LocationFacts DEF NoEntry
    <2>2. ManifestLinked \in BOOLEAN /\ ManifestLinked' \in BOOLEAN
      BY DEF ManifestLinked
    <2>3. ManifestLinked' => ManifestLinked
      BY <2>1 DEF ManifestLinked
    <2> QED BY ZenonT(20), <2>2, <2>3
  <1> QED BY <1>1, <1>2, <1>3, <1>4
          DEF Promise!LosePower, Intended, Vouched, Shown, Told, ManifestLinked

(* A step that neither publishes nor records what the promise is about is  *)
(* the end of the call, or nothing.                                        *)
LEMMA PromiseOther ==
    ASSUME OutcomeInv, WorkerStep, ~JournalTerminal,
           PromiseUnchanged
    PROVE  Promise!Answer("error") \/ UNCHANGED Promise!vars
  <1>1. power = "on" /\ power' = "on" /\ Told = "none" /\ Told' \in {"none", "error"}
    BY WorkerOn, WorkerAnswers
  <1> QED BY <1>1 DEF PromiseUnchanged, Promise!Answer, Promise!vars, Intended, Vouched, Shown,
                      Told, ManifestLinked

LEMMA PromiseNext == OutcomeInv /\ [Next]_vars => [Promise!Next]_(Promise!vars)
  <1> SUFFICES ASSUME OutcomeInv, [Next]_vars PROVE [Promise!Next]_(Promise!vars)
    OBVIOUS
  <1> USE DEF Promise!Next
  <1>1. CASE PowerLoss
    BY <1>1, PromisePower
  <1>2. CASE RequestCancel \/ ForeignCreate \/ Crash \/ UNCHANGED vars
    <2>1. UNCHANGED <<journal, returned>> /\ (power' = "lost" <=> power = "lost")
      BY <1>2 DEF RequestCancel, ForeignCreate, Crash, vars, journalVars, envVars
    <2>2. UNCHANGED <<Shown, ManifestLinked>>
      <3>1. CASE UNCHANGED tree
        BY <3>1 DEF Shown, Visible, ManifestLinked
      <3>2. CASE ForeignCreate
        <4>1. \E l : \E k \in {"parent", "foreignFile", "foreignDirectory"} : Added(l, k, 0)
          BY <3>2 DEF ForeignCreate, Added
        <4>2. power' # "lost"
          BY <3>2 DEF ForeignCreate
        <4>3. TypeInv
          BY DEF OutcomeInv
        <4>4. Calm
          BY <4>1, <4>3, CalmShapes
        <4> QED BY <4>2, <4>3, <4>4, CalmUnchanged
      <3> QED BY <1>2, <3>1, <3>2 DEF RequestCancel, Crash, vars
    <2>3. UNCHANGED <<Intended, Vouched>>
      BY <2>1, RecordsUnchanged
    <2> QED BY <2>1, <2>2, <2>3 DEF Promise!vars, Intended, Vouched, Shown, Told, ManifestLinked
  <1>3. CASE JournalTerminal
    BY <1>3, PromiseAnswer
  <1>4. ASSUME WorkerStep, ~JournalTerminal
        PROVE  [Promise!Next]_(Promise!vars)
    <2>1. power' = "on" /\ TypeInv
      BY <1>4, WorkerOn DEF OutcomeInv
    <2>2. \/ UNCHANGED journal
          \/ \E r : /\ Appended(r)
                    /\ \/ r.kind \notin Keys
                       \/ JournalPrepared /\ r = Rec("itemPrepared", index, NoLocation, FALSE)
                       \/ JournalPublished /\ r = Rec("itemPublished", index, here, synced)
                       \/ /\ JournalReconciliation
                          /\ r = Rec("directoryReconciliationRequired", index, here, FALSE)
      BY <2>1, KeySteps
    <2>3. ASSUME NEW r, Appended(r), r.kind \in Keys,
                 \/ JournalPrepared /\ r = Rec("itemPrepared", index, NoLocation, FALSE)
                 \/ JournalPublished /\ r = Rec("itemPublished", index, here, synced)
                 \/ /\ JournalReconciliation
                    /\ r = Rec("directoryReconciliationRequired", index, here, FALSE)
          PROVE  Promise!Next
      BY <2>3, PromiseIntend, PromiseVouch
    <2>4. ASSUME UNCHANGED <<Intended, Vouched>>
          PROVE  [Promise!Next]_(Promise!vars)
      <3>1. CASE UNCHANGED <<Shown, ManifestLinked>>
        BY <1>4, <2>4, <3>1, PromiseOther DEF PromiseUnchanged
      <3>2. CASE Calm
        BY <2>1, <3>1, <3>2, CalmUnchanged
      <3>3. CASE LinkSidecar /\ Added(sidecar', "sidecar", index)
        <4>1. index \in Items
          BY <2>1, <3>3, ControlType DEF LinkSidecar, At, ItemPhases
        <4>2. PICK l : l = sidecar'
          OBVIOUS
        <4>3. Added(l, "sidecar", index)
          BY <3>3, <4>2
        <4> QED BY <2>1, <3>1, <4>1, <4>3, AddedShown
      <3>4. CASE LinkData /\ pc' = "syncData" /\ Added(here', "data", index)
        <4>1. PICK l : l = here'
          OBVIOUS
        <4>2. Added(l, "data", index)
          BY <3>4, <4>1
        <4> QED BY <3>4, <4>2, PromiseShow
      <3>5. CASE CreateDirectory /\ pc' = "bindDirectory" /\ Added(here', "directory", index)
        <4>1. PICK l : l = here'
          OBVIOUS
        <4>2. Added(l, "directory", index)
          BY <3>5, <4>1
        <4> QED BY <3>5, <4>2, PromiseShow
      <3>6. CASE LinkManifest /\ pc' = "syncManifest" /\ Added(ManifestAt, "manifest", 0)
        BY <3>6, PromiseSeal
      <3> QED BY <2>1, <3>2, <3>3, <3>4, <3>5, <3>6, TreeSteps
    <2>5. CASE UNCHANGED journal
      BY <2>4, <2>5, RecordsUnchanged
    <2>6. ASSUME NEW r, Appended(r), r.kind \notin Keys
          PROVE  [Promise!Next]_(Promise!vars)
      BY <2>1, <2>4, <2>6, RecordsAdded
    <2> QED BY <2>2, <2>3, <2>5, <2>6
  <1> QED BY <1>1, <1>2, <1>3, <1>4 DEF Next

(* Each step of the engine is a step of what its callers rely on, for every *)
(* plan, every interleaving with other programs and every crash: intents    *)
(* before names, names before records, the manifest last, and "ok" only     *)
(* when all of it happened (restore_job_observed_with_runtime).             *)
THEOREM PromiseKept == Spec => KeepsPromise
  <1>1. Init => Promise!Init
    BY PromiseInit
  <1>2. OutcomeInv /\ [Next]_vars => [Promise!Next]_(Promise!vars)
    BY PromiseNext
  <1> QED BY <1>1, <1>2, Outcome, PTL DEF Spec, KeepsPromise, Promise!Spec

-----------------------------------------------------------------------------
(* What the observer hears.                                                *)
Hearing   == index \in Items /\ observed[index] = "started"
Heard     == IF failure.published THEN index ELSE index - 1
BadEnd    == IF failure.error = "none" THEN "none"
             ELSE IF failure.published THEN "reconcile"
             ELSE IF failure.error = "cancelled" THEN "cancelled" ELSE "failed"
Answered  == CASE returned \in {"none", "ok", "cancelled"} -> returned
               [] OTHER -> "error"

Done == {"published", "directoryCreated", "directoryNeedsReconciliation"}

(* The events of EngineReports, by the fields they change.                 *)
LEMMA SameReport ==
    ASSUME NEW f \in EngineReport, NEW g \in EngineReport,
           f.open = g.open, f.done = g.done, f.bad = g.bad,
           f.announced = g.announced, f.answer = g.answer
    PROVE  f = g
  BY DEF EngineReport

LEMMA EventStarted ==
    ASSUME NEW e \in EngineReport, NEW f \in EngineReport, NEW n, NEW asked,
           ~e.open, e.bad = "none", e.done < n, e.answer = "none",
           f.open, f.done = e.done, f.bad = e.bad,
           f.announced = e.announced, f.answer = e.answer
    PROVE  f \in EngineStep(e, n, asked)
  <1>1. PICK g : g = [e EXCEPT !.open = TRUE]
    OBVIOUS
  <1>2. /\ g \in EngineReport /\ g.open /\ g.done = e.done /\ g.bad = e.bad
        /\ g.announced = e.announced /\ g.answer = e.answer
    BY <1>1 DEF EngineReport
  <1>3. f.open = g.open
    BY <1>2 DEF EngineReport
  <1>4. f = g
    BY <1>2, <1>3, SameReport
  <1> QED BY <1>1, <1>4 DEF EngineStep, ItemStarted, When

LEMMA EventFinished ==
    ASSUME NEW e \in EngineReport, NEW f \in EngineReport, NEW n, NEW asked,
           e.open, e.answer = "none",
           ~f.open, f.announced = e.announced, f.answer = e.answer,
           \/ f.done = e.done + 1 /\ f.bad = e.bad
           \/ f.done = e.done /\ f.bad = "failed"
           \/ f.done = e.done + 1 /\ f.bad = "reconcile"
           \/ f.done = e.done /\ f.bad = "cancelled" /\ asked
    PROVE  f \in EngineStep(e, n, asked)
  <1>0. f.open = FALSE
    BY DEF EngineReport
  <1>1. CASE f.done = e.done + 1 /\ f.bad = e.bad
    <2>0. PICK d \in Nat : d = e.done + 1
      BY DEF EngineReport
    <2>1. PICK g : g = [e EXCEPT !.open = FALSE, !.done = d]
      OBVIOUS
    <2>2. /\ g \in EngineReport /\ g.open = FALSE /\ g.done = d /\ g.bad = e.bad
          /\ g.announced = e.announced /\ g.answer = e.answer
      BY <2>1 DEF EngineReport
    <2>3. f = g
      <3>1. f.open = g.open /\ f.done = g.done /\ f.bad = g.bad
        BY <2>0, <1>0, <1>1, <2>2
      <3> QED BY <2>2, <3>1, SameReport
    <2> QED BY <2>0, <2>1, <2>3 DEF EngineStep, ItemFinished, When
  <1>2. CASE f.done = e.done /\ f.bad = "failed"
    <2>1. PICK g : g = [e EXCEPT !.open = FALSE, !.bad = "failed"]
      OBVIOUS
    <2>2. /\ g \in EngineReport /\ g.open = FALSE /\ g.done = e.done /\ g.bad = "failed"
          /\ g.announced = e.announced /\ g.answer = e.answer
      BY <2>1 DEF EngineReport, BadOutcomes
    <2>3. f = g
      BY <1>0, <1>2, <2>2, SameReport
    <2> QED BY <2>1, <2>3 DEF EngineStep, ItemFinished, When
  <1>3. CASE f.done = e.done + 1 /\ f.bad = "reconcile"
    <2>0. PICK d \in Nat : d = e.done + 1
      BY DEF EngineReport
    <2>1. PICK g : g = [e EXCEPT !.open = FALSE, !.done = d, !.bad = "reconcile"]
      OBVIOUS
    <2>2. /\ g \in EngineReport /\ g.open = FALSE /\ g.done = d /\ g.bad = "reconcile"
          /\ g.announced = e.announced /\ g.answer = e.answer
      BY <2>1 DEF EngineReport, BadOutcomes
    <2>3. f = g
      BY <2>0, <1>0, <1>3, <2>2, SameReport
    <2> QED BY <2>0, <2>1, <2>3 DEF EngineStep, ItemFinished, When
  <1>4. CASE f.done = e.done /\ f.bad = "cancelled" /\ asked
    <2>1. PICK g : g = [e EXCEPT !.open = FALSE, !.bad = "cancelled"]
      OBVIOUS
    <2>2. /\ g \in EngineReport /\ g.open = FALSE /\ g.done = e.done /\ g.bad = "cancelled"
          /\ g.announced = e.announced /\ g.answer = e.answer
      BY <2>1 DEF EngineReport, BadOutcomes
    <2>3. f = g
      BY <1>0, <1>4, <2>2, SameReport
    <2> QED BY <1>4, <2>1, <2>3 DEF EngineStep, ItemFinished, When
  <1> QED BY <1>1, <1>2, <1>3, <1>4

LEMMA EventReturned ==
    ASSUME NEW e \in EngineReport, NEW f \in EngineReport, NEW n, NEW asked,
           e.answer = "none",
           f.open = e.open, f.done = e.done, f.bad = e.bad,
           \/ f.announced = e.announced /\ f.answer = "error"
           \/ /\ ~e.open /\ (e.bad # "none" \/ e.done = n) /\ f.announced
              /\ e.bad = "none" => f.answer = "ok"
              /\ e.bad = "cancelled" => f.answer = "cancelled"
              /\ e.bad \notin {"none", "cancelled"} => f.answer = "error"
    PROVE  f \in EngineStep(e, n, asked)
  <1>1. CASE f.announced = e.announced /\ f.answer = "error"
    <2>1. PICK g : g = [e EXCEPT !.answer = "error"]
      OBVIOUS
    <2>2. /\ g \in EngineReport /\ g.open = e.open /\ g.done = e.done /\ g.bad = e.bad
          /\ g.announced = e.announced /\ g.answer = "error"
      BY <2>1 DEF EngineReport
    <2>3. f = g
      BY <1>1, <2>2, SameReport
    <2> QED BY <2>1, <2>3 DEF EngineStep, CallReturned, When
  <1>2. CASE /\ ~e.open /\ (e.bad # "none" \/ e.done = n) /\ f.announced
             /\ e.bad = "none" => f.answer = "ok"
             /\ e.bad = "cancelled" => f.answer = "cancelled"
             /\ e.bad \notin {"none", "cancelled"} => f.answer = "error"
    <2>1. PICK a : a = CASE e.bad = "none"      -> "ok"
                         [] e.bad = "cancelled" -> "cancelled"
                         [] OTHER               -> "error"
      OBVIOUS
    <2>2. a = f.answer
      BY <1>2, <2>1
    <2>3. PICK g : g = [e EXCEPT !.announced = TRUE, !.answer = a]
      OBVIOUS
    <2>4. /\ g \in EngineReport /\ g.open = e.open /\ g.done = e.done /\ g.bad = e.bad
          /\ g.announced = TRUE /\ g.answer = f.answer
      BY <2>2, <2>3 DEF EngineReport
    <2>5. f.announced = TRUE
      BY <1>2 DEF EngineReport
    <2>6. f = g
      BY <2>4, <2>5, SameReport
    <2> QED BY <1>2, <2>1, <2>3, <2>6 DEF EngineStep, CallReturned, When
  <1> QED BY <1>1, <1>2

(* The items the observer counts as done are those before the current one, *)
(* and a current one that is visible and needs reconciliation.             *)
ReportsAs(f) ==
    /\ f \in EngineReport
    /\ f.open = Hearing /\ f.done = Heard /\ f.bad = BadEnd
    /\ f.announced = announced /\ f.answer = Answered

LEMMA ReportsAre == OutcomeInv => ReportsAs(Reports) /\ (Hearing => failure.error = "none")
  <1> SUFFICES ASSUME OutcomeInv
               PROVE  ReportsAs(Reports) /\ (Hearing => failure.error = "none")
    OBVIOUS
  <1>1. /\ index \in Nat /\ 1 <= index /\ index <= Len(Plan) + 1 /\ Len(Plan) \in Nat
        /\ Items = 1 .. Len(Plan) /\ failure.published \in BOOLEAN
    BY ControlType DEF OutcomeInv
  <1>2. ASSUME NEW i \in Items, i < index
        PROVE  observed[i] \in Done
    BY <1>2, ItemFacts DEF Done
  <1>3. ASSUME NEW i \in Items, i > index
        PROVE  observed[i] = "pending"
    BY <1>3 DEF OutcomeInv, ObservedInv
  <1>4. ASSUME index \in Items, failure.error # "none"
        PROVE  observed[index] = IF failure.published THEN "directoryNeedsReconciliation"
                                 ELSE IF failure.error = "cancelled" THEN "cancelled" ELSE "failed"
    BY <1>4, ItemFacts
  <1>5. ASSUME index \in Items, failure.error = "none"
        PROVE  observed[index] \in {"pending", "started"}
    BY <1>5 DEF OutcomeInv, ObservedInv
  <1>6. failure.published => failure.error # "none" /\ index \in Items
    BY DEF OutcomeInv, ProgressInv, NoFailure
  <1>7. (FinishedAs({"started"}) # {}) = Hearing
    <2>1. ASSUME NEW i \in Items, observed[i] = "started"
          PROVE  i = index
      <3>1. ~(i < index)
        BY <1>2, <2>1 DEF Done
      <3>2. ~(i > index)
        BY <1>3, <2>1
      <3> QED BY <1>1, <3>1, <3>2
    <2> QED BY <2>1 DEF FinishedAs, Hearing
  <1>8. Hearing => failure.error = "none"
    BY <1>4 DEF Hearing
  <1>9. FinishedAs(Done) = 1 .. Heard /\ Heard \in Nat
    <2>1. ASSUME NEW i \in Items
          PROVE  observed[i] \in Done <=> i <= Heard
      <3>1. CASE i < index
        BY <1>1, <1>2, <3>1 DEF Heard
      <3>2. CASE i > index
        BY <1>1, <1>3, <3>2 DEF Heard, Done
      <3>3. CASE i = index
        BY <1>1, <1>4, <1>5, <1>6, <3>3 DEF Heard, Done
      <3> QED BY <1>1, <3>1, <3>2, <3>3
    <2>2. Heard \in Nat /\ Heard <= Len(Plan)
      BY <1>1, <1>6 DEF Heard
    <2> QED BY <1>1, <2>1, <2>2 DEF FinishedAs
  <1>10. Cardinality(FinishedAs(Done)) = Heard
    BY <1>9, FS_Interval
  <1>11. announced \in BOOLEAN /\ returned \in Errors \cup {"none", "ok"}
    BY DEF OutcomeInv, TypeInv, TypeOK
  <1>12. BadEnd \in BadOutcomes \cup {"none"}
    BY DEF BadEnd, BadOutcomes
  <1>13. Answered \in {"none", "ok", "cancelled", "error"}
    BY DEF Answered
  <1>14. Hearing \in BOOLEAN
    BY DEF Hearing
  <1>15. Reports = [open |-> Hearing, done |-> Heard, bad |-> BadEnd,
                    announced |-> announced, answer |-> Answered]
    BY <1>7, <1>10 DEF Reports, BadEnd, Answered, Done
  <1>16. ReportsAs(Reports)
    BY <1>9, <1>11, <1>12, <1>13, <1>14, <1>15 DEF ReportsAs, EngineReport
  <1> QED BY <1>8, <1>16

(* What a step can do to what is reported.                                 *)
Silent == UNCHANGED <<index, failure, observed, announced>>
Failed(e) == /\ pc \in ItemPhases \cap WorkPhases
             /\ UNCHANGED <<index, announced>>
             /\ \E p \in BOOLEAN : FailItem(e, p) /\ (e = "cancelled" => cancel /\ ~p /\ ~poisoned')

LEMMA WorkerReports ==
    ASSUME OutcomeInv, WorkerStep
    PROVE  \/ ItemStart \/ JournalTerminal
           \/ Silent /\ returned' \in {"none"} \cup (Errors \ {"cancelled"})
           \/ \E e \in Errors : Failed(e)
           \/ JournalPublished /\ index' = index + 1 /\ UNCHANGED <<failure, announced, returned>>
  <1>0. \A r : \A e \in Errors : AppendFailed(r, e) => e # "cancelled"
    BY AppendError
  <1>1. returned = "none" /\ power = "on"
    BY WorkerOn
  <1> USE DEF Silent, Failed, Goto, Return, Errors, reportVars, itemVars
  <1>2. CASE CreateJob \/ ItemsDone \/ PrepareManifest \/ LinkManifest \/ SyncManifest
             \/ SyncSidecar \/ BindDirectory \/ SyncData
    BY <1>1, <1>2 DEF CreateJob, ItemsDone, PrepareManifest, LinkManifest, SyncManifest,
       SyncSidecar, BindDirectory, SyncData
  <1>3. CASE JournalStarted \/ JournalItemFailure \/ JournalManifestPrepared
    BY <1>0, <1>1, <1>3 DEF JournalStarted, JournalItemFailure, JournalManifestPrepared
  <1>4. CASE JournalLinkFailure \/ JournalManifestPublished
    BY <1>1, <1>4 DEF JournalLinkFailure, JournalManifestPublished
  <1>5. CASE OpenParents
    <2>1. \/ Goto(IF Item.kind = "file" THEN "stream" ELSE "journalPrepared")
             /\ UNCHANGED <<failure, observed>>
          \/ FailItem("restoreFailure", FALSE)
      BY <1>5 DEF OpenParents
    <2>2. pc \in ItemPhases \cap WorkPhases /\ UNCHANGED <<index, announced>>
      BY <1>5 DEF OpenParents, At, ItemPhases, WorkPhases, EarlyPhases
    <2> QED BY <1>1, <2>1, <2>2
  <1>6. CASE Stream
    <2>1. \/ Goto("journalPrepared") /\ UNCHANGED <<failure, observed>>
          \/ FailItem("restoreFailure", FALSE)
          \/ cancel /\ FailItem("cancelled", FALSE)
      BY <1>6 DEF Stream
    <2>2. pc \in ItemPhases \cap WorkPhases /\ UNCHANGED <<index, announced, poisoned>>
      BY <1>6 DEF Stream, At, ItemPhases, WorkPhases, EarlyPhases, journalVars
    <2>3. ~poisoned
      BY <1>6 DEF Stream, At, OutcomeInv, ProgressInv
    <2> QED BY <1>1, <2>1, <2>2, <2>3
  <1>7. CASE LinkSidecar \/ LinkData \/ CreateDirectory
    <2>1. \/ \E p : Goto(p) /\ UNCHANGED <<failure, observed>>
          \/ \E e \in {"collisionLimit", "hardLinkPublication", "restoreFailure"} : FailItem(e, FALSE)
      BY <1>7 DEF LinkSidecar, LinkData, CreateDirectory, NextName
    <2>2. pc \in ItemPhases \cap WorkPhases /\ UNCHANGED <<index, announced>>
      BY <1>7 DEF LinkSidecar, LinkData, CreateDirectory, At, ItemPhases, WorkPhases, PreparedPhases
    <2> QED BY <1>1, <2>1, <2>2
  <1>8. CASE JournalPrepared \/ PlanDirectory \/ JournalSidecar
    <2>1. \/ \E p : Goto(p) /\ UNCHANGED <<failure, observed>>
          \/ \E e \in Errors \ {"cancelled"} : FailItem(e, FALSE)
      BY <1>0, <1>8 DEF JournalPrepared, PlanDirectory, JournalSidecar
    <2>2. pc \in ItemPhases \cap WorkPhases /\ UNCHANGED <<index, announced>>
      BY <1>8 DEF JournalPrepared, PlanDirectory, JournalSidecar, At, ItemPhases, WorkPhases,
         EarlyPhases, PreparedPhases
    <2> QED BY <1>1, <2>1, <2>2
  <1>9. CASE JournalReconciliation
    BY <1>9 DEF JournalReconciliation, At, ItemPhases, WorkPhases, PlacedPhases
  <1>10. CASE JournalPublished
    <2>1. \/ index' = index + 1 /\ Goto("itemStart") /\ UNCHANGED failure
          \/ /\ UNCHANGED index
             /\ FailItem("needsReconciliation", Item.kind = "directory")
      BY <1>10 DEF JournalPublished
    <2>2. pc \in ItemPhases \cap WorkPhases /\ UNCHANGED announced
      BY <1>10 DEF JournalPublished, At, ItemPhases, WorkPhases, PlacedPhases
    <2> QED BY <1>10, <2>1, <2>2
  <1> QED BY <1>2, <1>3, <1>4, <1>5, <1>6, <1>7, <1>8, <1>9, <1>10
          DEF WorkerStep, ItemStep, ManifestStep

InOrder(e, f) == f \in {e} \cup After(e) \cup UNION {After(d) : d \in After(e)}

LEMMA ReportsNext == OutcomeInv /\ [Next]_vars => InOrder(Reports, Reports') \/ UNCHANGED vars
  <1> SUFFICES ASSUME OutcomeInv, [Next]_vars
               PROVE  InOrder(Reports, Reports') \/ UNCHANGED vars
    OBVIOUS
  <1>1. OutcomeInv'
    BY OutcomeNext
  <1>2. ReportsAs(Reports) /\ ReportsAs(Reports)' /\ (Hearing => failure.error = "none")
    <2>1. OutcomeInv' => ReportsAs(Reports)'
      BY ReportsAre, PTL
    <2> QED BY <1>1, <2>1, ReportsAre
  <1>3. PICK e : e = Reports
    OBVIOUS
  <1>4. PICK f : f = Reports'
    OBVIOUS
  <1>5. /\ e \in EngineReport /\ e.open = Hearing /\ e.done = Heard /\ e.bad = BadEnd
        /\ e.announced = announced /\ e.answer = Answered
    BY <1>2, <1>3 DEF ReportsAs
  <1>6. /\ f \in EngineReport /\ f.open = Hearing' /\ f.done = Heard' /\ f.bad = BadEnd'
        /\ f.announced = announced' /\ f.answer = Answered'
    BY <1>2, <1>4 DEF ReportsAs
  <1> SUFFICES InOrder(e, f) \/ UNCHANGED vars
    BY <1>3, <1>4
  <1>7. /\ index \in Nat /\ 1 <= index /\ index <= Len(Plan) + 1 /\ Len(Plan) \in Nat
        /\ Items = 1 .. Len(Plan) /\ failure.published \in BOOLEAN
        /\ failure.error \in Errors \cup {"none"}
        /\ observed \in [Items -> Dispositions \cup {"pending", "started"}]
    BY ControlType DEF OutcomeInv, TypeInv, TypeOK
  <1>8. failure.error = "none" => failure = NoFailure
    BY DEF OutcomeInv, ProgressInv
  <1>9. CASE Silent /\ UNCHANGED returned
    <2>1. f = e
      BY <1>5, <1>6, <1>9, SameReport DEF Silent, Hearing, Heard, BadEnd, Answered
    <2> QED BY <2>1 DEF InOrder
  <1>10. CASE WorkerStep
    <2>1. returned = "none" /\ e.answer = "none"
      BY <1>5, <1>10, WorkerOn DEF Answered
    <2>2. CASE Silent /\ returned' \in {"none"} \cup (Errors \ {"cancelled"})
      <3>1. CASE returned' = "none"
        BY <1>9, <2>1, <2>2, <3>1
      <3>2. CASE returned' \in Errors \ {"cancelled"}
        <4>1. f.answer = "error"
          BY <1>6, <3>2 DEF Answered, Errors
        <4>2. f.open = e.open /\ f.done = e.done /\ f.bad = e.bad /\ f.announced = e.announced
          BY <1>5, <1>6, <2>2 DEF Silent, Hearing, Heard, BadEnd
        <4>3. f \in After(e)
          BY <1>5, <1>6, <2>1, <4>1, <4>2, EventReturned DEF After
        <4> QED BY <4>3 DEF InOrder
      <3> QED BY <2>2, <3>1, <3>2
    <2>3. ASSUME NEW x \in Errors, Failed(x)
          PROVE  InOrder(e, f) \/ UNCHANGED vars
      <3>1. PICK p \in BOOLEAN : /\ FailItem(x, p)
                                 /\ x = "cancelled" => cancel /\ ~p /\ ~poisoned'
        BY <2>3 DEF Failed
      <3>2. /\ index \in Items /\ observed[index] = "started" /\ failure.error = "none"
            /\ failure = NoFailure /\ UNCHANGED <<index, announced>>
        BY <1>7, <1>8, <2>3, ControlType
           DEF Failed, OutcomeInv, ObservedInv, ProgressInv
      <3>3. e.open /\ e.done = index - 1 /\ e.bad = "none"
        BY <1>5, <3>2 DEF Hearing, Heard, BadEnd, NoFailure
      <3>4. CASE poisoned'
        <4>1. UNCHANGED <<failure, observed>> /\ returned' = x /\ x # "cancelled"
          BY <3>1, <3>4 DEF FailItem, Return
        <4>2. Silent /\ returned' \in {"none"} \cup (Errors \ {"cancelled"})
          BY <3>2, <4>1 DEF Silent
        <4> QED BY <2>2, <4>2
      <3>5. CASE ~poisoned'
        <4>1. /\ failure'.error = x /\ failure'.published = p /\ UNCHANGED returned
              /\ observed' = [observed EXCEPT ![index] =
                                CASE p              -> "directoryNeedsReconciliation"
                                  [] x = "cancelled" -> "cancelled"
                                  [] OTHER           -> "failed"]
          BY <3>1, <3>5 DEF FailItem, Goto
        <4>2. observed'[index] # "started"
          BY <1>7, <3>1, <3>2, <4>1
        <4>3. ~f.open /\ f.announced = e.announced /\ f.answer = e.answer
          BY <1>5, <1>6, <3>2, <4>1, <4>2 DEF Hearing, Answered
        <4>4. x # "none"
          BY DEF Errors
        <4>5. \/ f.done = e.done + 1 /\ f.bad = "reconcile"
              \/ f.done = e.done /\ f.bad = "cancelled" /\ cancel
              \/ f.done = e.done /\ f.bad = "failed"
          BY <1>6, <1>7, <3>1, <3>2, <3>3, <4>1, <4>4 DEF Heard, BadEnd
        <4>6. f \in After(e)
          BY <1>5, <1>6, <2>1, <3>3, <4>3, <4>5, EventFinished DEF After
        <4> QED BY <4>6 DEF InOrder
      <3> QED BY <3>4, <3>5
    <2>4. CASE JournalPublished /\ index' = index + 1 /\ UNCHANGED <<failure, announced, returned>>
      <3>1. pc = "journalPublished"
        BY <2>4 DEF JournalPublished, At
      <3>2. /\ index \in Items /\ observed[index] = "started" /\ failure.error = "none"
            /\ failure = NoFailure
        BY <1>7, <1>8, <3>1, ControlType
           DEF OutcomeInv, ObservedInv, ProgressInv, ItemPhases, WorkPhases, PlacedPhases
      <3>3. e.open /\ e.done = index - 1 /\ e.bad = "none"
        BY <1>5, <3>2 DEF Hearing, Heard, BadEnd, NoFailure
      <3>4. f.done = index /\ f.bad = "none"
        BY <1>6, <1>7, <2>4, <3>2 DEF Heard, BadEnd, NoFailure
      <3>5. ~f.open
        <4>1. pc' = "itemStart"
          <5>1. Goto("itemStart") \/ UNCHANGED index
            BY <2>4 DEF JournalPublished
          <5> QED BY <1>7, <2>4, <5>1 DEF Goto
        <4>2. ~Hearing'
          BY <1>1, <2>4, <3>2, <4>1 DEF OutcomeInv, ObservedInv, Hearing
        <4> QED BY <1>6, <4>2
      <3>6. f.announced = e.announced /\ f.answer = e.answer
        BY <1>5, <1>6, <2>4 DEF Answered
      <3>7. f \in After(e)
        BY <1>5, <1>6, <1>7, <2>1, <3>3, <3>4, <3>5, <3>6, EventFinished DEF After
      <3> QED BY <3>7 DEF InOrder
    <2>5. CASE ItemStart
      <3>1. /\ pc = "itemStart" /\ index <= Len(Plan) /\ UNCHANGED <<index, announced, returned>>
            /\ \/ /\ cancel /\ failure' = [NoFailure EXCEPT !.error = "cancelled"]
                  /\ observed' = [observed EXCEPT ![index] = "cancelled"]
               \/ observed' = [observed EXCEPT ![index] = "started"] /\ UNCHANGED failure
        BY <2>5 DEF ItemStart, At, Goto
      <3>2. /\ index \in Items /\ failure.error = "none" /\ failure = NoFailure
            /\ observed[index] = "pending"
        BY <1>7, <1>8, <3>1
           DEF OutcomeInv, ObservedInv, ProgressInv, WorkPhases, EarlyPhases
      <3>3. e.open = FALSE /\ e.done = index - 1 /\ e.bad = "none" /\ e.done < Len(Plan)
        <4>1. ~Hearing /\ Heard = index - 1 /\ BadEnd = "none"
          BY <3>2 DEF Hearing, Heard, BadEnd, NoFailure
        <4>2. e.open \in BOOLEAN
          BY <1>5 DEF EngineReport
        <4> QED BY <1>5, <1>7, <3>1, <4>1, <4>2
      <3>4. f.announced = e.announced /\ f.answer = e.answer
        BY <1>5, <1>6, <3>1 DEF Answered
      <3>5. PICK g : g = [open |-> TRUE, done |-> index - 1, bad |-> "none",
                          announced |-> announced, answer |-> "none"]
        OBVIOUS
      <3>6. /\ g \in EngineReport /\ g.open = TRUE /\ g.done = index - 1 /\ g.bad = "none"
            /\ g.announced = announced /\ g.answer = "none"
        <4>1. e.announced \in BOOLEAN /\ e.announced = announced
          BY <1>5 DEF EngineReport
        <4> QED BY <1>7, <3>5, <4>1 DEF EngineReport
      <3>7. g \in After(e)
        BY <1>5, <2>1, <3>3, <3>6, EventStarted DEF After
      <3>8. CASE observed' = [observed EXCEPT ![index] = "started"] /\ UNCHANGED failure
        <4>1. f.open = TRUE /\ f.done = index - 1 /\ f.bad = "none"
          BY <1>6, <1>7, <3>1, <3>2, <3>8 DEF Hearing, Heard, BadEnd, NoFailure
        <4>2. f = g
          BY <1>5, <1>6, <2>1, <3>4, <3>6, <4>1, SameReport
        <4> QED BY <3>7, <4>2 DEF InOrder
      <3>9. CASE /\ cancel /\ failure' = [NoFailure EXCEPT !.error = "cancelled"]
                 /\ observed' = [observed EXCEPT ![index] = "cancelled"]
        <4>1. failure'.error = "cancelled" /\ failure'.published = FALSE
          BY <3>9 DEF NoFailure
        <4>2. ~f.open /\ f.done = index - 1 /\ f.bad = "cancelled"
          BY <1>6, <1>7, <3>1, <3>2, <3>9, <4>1 DEF Hearing, Heard, BadEnd
        <4>3. f \in After(g)
          BY <1>5, <1>6, <2>1, <3>4, <3>6, <3>9, <4>2, EventFinished DEF After
        <4> QED BY <3>7, <4>3 DEF InOrder
      <3> QED BY <3>1, <3>8, <3>9
    <2>6. CASE JournalTerminal
      <3>1. /\ pc = "journalTerminal" /\ UNCHANGED <<index, failure, observed>>
            /\ \/ /\ announced' = TRUE
                  /\ returned' = IF failure.error = "none" THEN "ok" ELSE failure.error
               \/ returned' = "needsReconciliation" /\ UNCHANGED announced
        BY <2>6 DEF JournalTerminal, Return, itemVars, At
      <3>2. f.open = e.open /\ f.done = e.done /\ f.bad = e.bad
        BY <1>5, <1>6, <3>1 DEF Hearing, Heard, BadEnd
      <3>3. CASE returned' = "needsReconciliation" /\ UNCHANGED announced
        <4>1. f.answer = "error" /\ f.announced = e.announced
          BY <1>5, <1>6, <3>3 DEF Answered
        <4>2. f \in After(e)
          BY <1>5, <1>6, <2>1, <3>2, <4>1, EventReturned DEF After
        <4> QED BY <4>2 DEF InOrder
      <3>4. CASE /\ announced' = TRUE
                 /\ returned' = IF failure.error = "none" THEN "ok" ELSE failure.error
        <4>1. failure.error = "none" <=> index = Len(Plan) + 1
          BY <3>1 DEF OutcomeInv, ProgressInv, ManifestPhases, SealPhases
        <4>2. ~e.open
          <5>1. Hearing => index \in Items /\ failure.error = "none"
            BY <1>2 DEF Hearing
          <5> QED BY <1>5, <1>7, <4>1, <5>1
        <4>3. failure.published => failure.error \notin {"none", "cancelled"}
          BY DEF OutcomeInv, ProgressInv, NoFailure
        <4>4. e.bad # "none" \/ e.done = Len(Plan)
          BY <1>5, <1>7, <4>1, <4>3 DEF BadEnd, Heard
        <4>5. /\ e.bad = "none" => f.answer = "ok"
              /\ e.bad = "cancelled" => f.answer = "cancelled"
              /\ e.bad \notin {"none", "cancelled"} => f.answer = "error"
          BY <1>5, <1>6, <1>7, <3>4, <4>3 DEF BadEnd, Answered, Errors
        <4>6. f.announced
          BY <1>6, <3>4
        <4>7. f \in After(e)
          BY <1>5, <1>6, <2>1, <3>2, <4>2, <4>4, <4>5, <4>6, EventReturned DEF After
        <4> QED BY <4>7 DEF InOrder
      <3> QED BY <3>1, <3>3, <3>4
    <2> QED BY <1>10, <2>2, <2>3, <2>4, <2>5, <2>6, WorkerReports
  <1>11. CASE RequestCancel \/ ForeignCreate \/ Crash \/ PowerLoss
    BY <1>9, <1>11 DEF RequestCancel, ForeignCreate, Crash, PowerLoss, Silent, reportVars, itemVars
  <1> QED BY <1>10, <1>11 DEF Next

(* What the engine tells its observer and its caller, in which order, is    *)
(* what the coordinator is modelled to receive (EngineReports): items are   *)
(* started and finished one by one, a cancelled or failed one is the last,  *)
(* the manifest is announced with the end of the call, and "ok" is answered *)
(* only when every item is done (RestoreObserver and the result of          *)
(* restore_job_observed_with_runtime).                                      *)
THEOREM ReportsAsModelled == Spec => ReportsInOrder
  <1>1. OutcomeInv /\ [Next]_vars =>
           [Reports' \in {Reports} \cup After(Reports)
                           \cup UNION {After(e) : e \in After(Reports)}]_vars
    BY ReportsNext DEF InOrder
  <1> QED BY <1>1, Outcome, PTL DEF Spec, ReportsInOrder
=============================================================================
