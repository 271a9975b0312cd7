------------------------------ MODULE NtfsScan ------------------------------
(***************************************************************************)
(* scan_ntfs of crates/fs-ntfs/src/scan.rs on a volume that other programs *)
(* go on using: the table is read in batches, a batch that cannot be read  *)
(* record by record, directories and deleted records are retained within   *)
(* budgets, the streams of extension records are merged, and then the      *)
(* namespace and the candidates are made from what was retained.           *)
(***************************************************************************)
EXTENDS NtfsVolume

CONSTANTS
    TrustedRecords,      \* how many records of the table may be readable
    BatchRecords,        \* records per read (1 MiB worth)
    MaxDeleted,          \* retained deleted records (MAX_RETAINED_DELETED_ENTRIES)
    MaxDirectories,      \* retained directories
    MaxEntryNames,       \* names of retained records
    MaxReferences,       \* retained extension references
    MaxExtensionStreams, \* streams merged from extension records
    MaxFaults            \* records that cannot be read or are read torn

ASSUME ScanAssumption ==
    /\ TrustedRecords \subseteq 1 .. LastRecord + 1
    /\ BatchRecords \in Nat \ {0}
    /\ \A n \in {MaxDeleted, MaxDirectories, MaxEntryNames, MaxReferences,
                 MaxExtensionStreams, MaxFaults} : n \in Nat

VARIABLES
    phase,      \* what the scan is at
    trusted,    \* how many records it is going to read
    next,       \* the next record
    alone,      \* where reading record by record ends, or 0
    entries,    \* the records retained
    extensions, \* the deleted extension records, by base record
    merging,    \* the base records whose extensions are still to be merged
    complete,   \* nothing was lost so far
    namespace,  \* the paths and directories found
    candidates, \* the deleted files and directories found
    faults      \* records that were not read

scanVars == <<phase, trusted, next, alone, entries, extensions, merging,
              complete, namespace, candidates, faults>>
ntfsVars == <<volumeVars, scanVars>>

Nothing == [r \in {} |-> Zero]
NoNamespace == [paths |-> <<>>, directories |-> {}, complete |-> FALSE]

ScanInit ==
    /\ phase = "bootstrap" /\ trusted = 0 /\ next = 0 /\ alone = 0
    /\ entries = Nothing /\ extensions = [r \in {} |-> <<>>]
    /\ merging = <<>> /\ complete = TRUE
    /\ namespace = NoNamespace /\ candidates = {}
    /\ faults = 0

(* The boot sector and record 0 say where the table is; only the part of   *)
(* it that is stored, initialized and inside the source is read.           *)
Bootstrap ==
    /\ phase = "bootstrap"
    /\ \E count \in TrustedRecords :
          /\ trusted' = count
          /\ complete' = (count = LastRecord + 1)
    /\ phase' = "records"
    /\ UNCHANGED <<volumeVars, next, alone, entries, extensions, merging,
                   namespace, candidates, faults>>

BootstrapFails ==
    /\ phase = "bootstrap" /\ faults < MaxFaults
    /\ phase' = "failed" /\ faults' = faults + 1
    /\ UNCHANGED <<volumeVars, trusted, next, alone, entries, extensions,
                   merging, complete, namespace, candidates>>

-----------------------------------------------------------------------------
(* Pass 1.                                                                 *)

(* What the scan knows: the retained records, the extension references and *)
(* whether all of it was kept.                                             *)
Known == [entries |-> entries, extensions |-> extensions, complete |-> complete]
Lost(k) == [k EXCEPT !.complete = FALSE]

(* A record with an attribute list is never taken for completely parsed.   *)
ParsedEntry(r, record) ==
    [sequence |-> record.sequence, inUse |-> record.inUse, dir |-> record.dir,
     names |-> record.names, whole |-> record.whole /\ ~record.listed,
     listed |-> record.listed, pieces |-> IF record.dir THEN <<>> ELSE <<r>>]

Put(f, r, value) == [u \in DOMAIN f \cup {r} |-> IF u = r THEN value ELSE f[u]]

NameCount(es) ==
    FoldLeft(LAMBDA sum, r : sum + Len(es[r].names), 0, SetToSeq(DOMAIN es))
FitsRetention(es) ==
    /\ Cardinality({r \in DOMAIN es : ~es[r].inUse}) <= MaxDeleted
    /\ Cardinality({r \in DOMAIN es : es[r].dir}) <= MaxDirectories
    /\ NameCount(es) <= MaxEntryNames

RetainBaseEntry(k, r, entry) ==
    LET more == Put(k.entries, r, entry)
    IN  IF ~FitsRetention(more) THEN Lost(k)
        ELSE [k EXCEPT !.entries = more,
                       !.complete = k.complete /\ entry.whole]

ReferenceCount(k) ==
    FoldLeft(LAMBDA sum, b : sum + Len(k.extensions[b]), 0,
             SetToSeq(DOMAIN k.extensions))
RetainReference(k, base, r) ==
    LET refs == IF base \in DOMAIN k.extensions THEN k.extensions[base] ELSE <<>>
    IN  IF ReferenceCount(k) >= MaxReferences THEN Lost(k)
        ELSE [k EXCEPT !.extensions = Put(@, base, Append(refs, r))]

(* Bug: a record that does not parse is passed over.                       *)
ProcessMftRecordBug(k, r, record) ==
    IF record.kind # "file" THEN k
    ELSE IF record.base # 0
    THEN IF record.inUse THEN k ELSE RetainReference(k, record.base, r)
    ELSE IF ~record.dir /\ (record.inUse \/ r < FirstUserRecord) THEN k
    ELSE RetainBaseEntry(k, r, ParsedEntry(r, record))

ProcessMftRecord(k, r, record) ==
    CASE record.kind = "zero" -> k
      [] record.kind \notin {"zero", "file"} -> Lost(k)
      [] record.kind = "file" /\ record.base # 0 ->
            IF record.inUse THEN k ELSE RetainReference(k, record.base, r)
      [] OTHER ->
            IF ~record.dir /\ (record.inUse \/ r < FirstUserRecord) THEN k
            ELSE RetainBaseEntry(k, r, ParsedEntry(r, record))

Min2(a, b) == IF a < b THEN a ELSE b
BatchEnd == Min2(next + BatchRecords, trusted)
Read(r, torn) == IF r \in torn THEN [kind |-> "torn"] ELSE table[r]

Learn(k) ==
    /\ entries' = k.entries /\ extensions' = k.extensions
    /\ complete' = k.complete

(* What is known once the next n records are processed, one by one.        *)
KnownAfter(n, torn) ==
    LET known[i \in 0 .. n] ==
            IF i = 0 THEN Known
            ELSE ProcessMftRecord(known[i - 1], next + i - 1, Read(next + i - 1, torn))
    IN  known[n]

ReadBatch ==
    /\ phase = "records" /\ alone = 0 /\ next < trusted
    /\ \E torn \in {{}} \cup {{r} : r \in {u \in UserRecords :
                                 u \in next .. BatchEnd - 1 /\ IsFile(u)}} :
          /\ faults + Cardinality(torn) <= MaxFaults
          /\ faults' = faults + Cardinality(torn)
          /\ Learn(KnownAfter(BatchEnd - next, torn))
    /\ next' = BatchEnd
    /\ UNCHANGED <<volumeVars, phase, trusted, alone, merging, namespace,
                   candidates>>

ReadBatchFails ==
    /\ phase = "records" /\ alone = 0 /\ next < trusted /\ faults < MaxFaults
    /\ alone' = BatchEnd
    /\ UNCHANGED <<volumeVars, phase, trusted, next, entries, extensions,
                   merging, complete, namespace, candidates, faults>>

(* The bad range is isolated rather than the whole batch lost.             *)
ReadAlone ==
    /\ phase = "records" /\ next < alone
    /\ \/ Learn(ProcessMftRecord(Known, next, table[next])) /\ UNCHANGED faults
       \/ /\ faults < MaxFaults
          /\ faults' = faults + 1
          /\ Learn(Lost(Known))
    /\ next' = next + 1
    /\ alone' = IF next + 1 = alone THEN 0 ELSE alone
    /\ UNCHANGED <<volumeVars, phase, trusted, merging, namespace, candidates>>

-----------------------------------------------------------------------------
(* Pass 2: the streams of the extension records of deleted files that have *)
(* a resident attribute list.                                              *)

BeginMerge ==
    /\ phase = "records" /\ next = trusted
    /\ phase' = "merge"
    /\ merging' = InOrder({b \in DOMAIN extensions : b \in DOMAIN entries /\ entries[b].listed})
    /\ UNCHANGED <<volumeVars, trusted, next, alone, entries, extensions,
                   complete, namespace, candidates, faults>>

(* The records are read again, and not every one may still be there.       *)
Readable(refs, bad) == Filter(refs, {r \in Records \ bad : IsFile(r)})
MergedStreams ==
    FoldLeft(LAMBDA sum, r : sum + Len(SelectSeq(entries[r].pieces, LAMBDA p : p # r)),
             0, SetToSeq(DOMAIN entries))

MergeExtensions ==
    /\ phase = "merge" /\ merging # <<>>
    /\ \E bad \in {{}} \cup {{r} : r \in Range(extensions[Head(merging)])} :
          LET refs  == extensions[Head(merging)]
              extra == Readable(refs, bad)
              fits  == MergedStreams + Len(extra) <= MaxExtensionStreams
          IN  /\ faults + Cardinality(bad) <= MaxFaults
              /\ faults' = faults + Cardinality(bad)
              /\ complete' = (complete /\ fits /\ extra = refs
                                /\ \A r \in Range(extra) : table[r].whole)
              /\ entries' = IF fits
                            THEN [entries EXCEPT ![Head(merging)].pieces = @ \o extra]
                            ELSE entries
              /\ merging' = IF fits THEN Tail(merging) ELSE <<>>
    /\ UNCHANGED <<volumeVars, phase, trusted, next, alone, extensions,
                   namespace, candidates>>

-----------------------------------------------------------------------------
(* Namespace and pass 3.                                                   *)

MakeNamespace ==
    /\ phase = "merge" /\ merging = <<>>
    /\ phase' = "candidates"
    /\ namespace' = BuildNamespace(entries, complete)
    /\ UNCHANGED <<volumeVars, trusted, next, alone, entries, extensions,
                   merging, complete, candidates, faults>>

Candidate(r) ==
    LET above == ReconstructPath(entries, r)
    IN  [id |-> r, sequence |-> entries[r].sequence, dir |-> entries[r].dir,
         name |-> BestName(entries[r].names)[1].name,
         path |-> above.path, confidence |-> above.confidence]

MakeCandidates ==
    /\ phase = "candidates"
    /\ phase' = "complete"
    /\ candidates' = {Candidate(r) : r \in {d \in DOMAIN entries :
                         /\ ~entries[d].inUse /\ d >= FirstUserRecord
                         /\ entries[d].names # <<>>}}
    /\ UNCHANGED <<volumeVars, trusted, next, alone, entries, extensions,
                   merging, complete, namespace, faults>>

ScanStep == \/ Bootstrap \/ BootstrapFails
            \/ ReadBatch \/ ReadBatchFails \/ ReadAlone
            \/ BeginMerge \/ MergeExtensions \/ MakeNamespace \/ MakeCandidates

NtfsInit == VolumeInit /\ ScanInit
NtfsNext == \/ ScanStep
            \/ /\ phase \notin {"complete", "failed"}
               /\ OtherPrograms /\ UNCHANGED scanVars
NtfsSpec == NtfsInit /\ [][NtfsNext]_ntfsVars

-----------------------------------------------------------------------------
(* Properties.                                                             *)

CandidateNode(c) == [record |-> c.id, sequence |-> c.sequence]
Generation(c) ==
    [record |-> c.id, sequence |-> (c.sequence - 1) % SequenceLimit]
Root == [record |-> RootRecord, sequence |-> table[RootRecord].sequence]
ActiveDirectories ==
    {d.node : d \in {e \in namespace.directories : e.active}}

(* A candidate said to be in a folder was there by links that each held    *)
(* while the volume was scanned, and one said not to be in it has, for     *)
(* each of its names, such a way to the root that avoids the folder.       *)
MembershipIsTrue(c, d) ==
    LET answer == ClassifyCandidate(namespace, CandidateNode(c), d)
    IN  /\ answer = "match" =>
              Generation(c) \in Reaching(d, {})
        /\ answer = "noMatch" =>
              \A n \in Range(entries[c.id].names) : n.kind # "dos" =>
                 [record |-> n.parent, sequence |-> n.parentSequence] \in Reaching(Root, {d})

(* A folder that resolves has had that path; so had the candidate, if it   *)
(* is not shown as an orphan.                                              *)
PathsAreTrue ==
    /\ \A p \in Range(namespace.paths) :
          LET components == Append(p.folders, p.name)
              found == ResolveActiveDirectory(namespace, components)
          IN  found.answer = "unique" =>
                 found.nodes \subseteq HavingPath(components)
    /\ \A c \in candidates : c.confidence # "low" =>
          Generation(c) \in HavingPath(Append(c.path, c.name))

(* A name whose parent took over a record that was read when it was free.  *)
(* The sequence of a freed record is already that of the next generation,  *)
(* so the scanner takes the freed directory for the parent (scan.rs:1083). *)
Mistaken ==
    \E r \in DOMAIN entries : \E n \in Range(entries[r].names) :
       /\ n.parent \in DOMAIN entries /\ ~entries[n.parent].inUse
       /\ entries[n.parent].sequence = n.parentSequence

(* What the scan says about folders and paths of deleted files is true of  *)
(* the volume: nothing is placed in a folder it was not in, nor excluded   *)
(* from the one it was in, although records are reused, moved and linked   *)
(* while they are read ("Unknown is never collapsed into NoMatch"), unless *)
(* a freed directory was taken for the one that took over its record.      *)
NamespaceIsTrue ==
    phase = "complete" /\ ~Mistaken =>
       /\ PathsAreTrue
       /\ \A c \in candidates, d \in ActiveDirectories : MembershipIsTrue(c, d)

(* A scan that calls itself complete has found every file that was deleted *)
(* when it began and that nobody has touched since.                        *)
CompleteScanMissesNothing ==
    phase = "complete" /\ namespace.complete =>
       \A r \in quiet \cap UserRecords :
          IsBase(r) /\ ~table[r].inUse =>
             \E c \in candidates : /\ c.id = r /\ c.sequence = table[r].sequence
                                   /\ c.name = BestName(table[r].names)[1].name
=============================================================================
