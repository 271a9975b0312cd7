# Undelete Master: specifications, model checks and proofs

Undelete Master recovers deleted files. It reads a disk, a partition or a disk
image (never writing to it), lists what can be recovered, lets the user select,
and copies the selection to another disk. This directory holds TLA+ models of
the parts of it that are hard to get right, the TLC configurations that check
them on small instances, and TLAPS proofs of what matters most.

Paths below are relative to the repository (`crates/...`, `apps/...`).

## 1. The system

| Part | Code | State | Operations | What must hold |
|---|---|---|---|---|
| Restore engine | `crates/restore/src/transaction.rs`, `journal.rs`, `manifest.rs` | job directory, hash-chained journal, collision index, results, poisoned flag | `restore_job_observed`: one pass over an immutable plan; link, sync, record, manifest | nothing visible that was not announced; records are true; manifest = journal = directory; never replace a name; success means all |
| Content plan and stream | `crates/restore/src/plan.rs`, `stream.rs`, `path.rs` | ordered segments, committed bytes, zero-filled ranges | `plan_candidate`, `stream_candidate`, `normalize_bad_ranges` | output has the planned length; every zero-filled byte is in the map; complete-only never fills |
| Desktop restore coordinator | `apps/desktop/src-tauri/src/restore.rs` | destinations, plans, jobs behind one mutex; a worker thread per job | select destination, create plan, start, cancel, get, open | a plan starts at most one job; a job restores exactly the confirmed selection; terminal states agree with the engine |
| Desktop storage authority | `apps/desktop/src-tauri/src/storage.rs` | folder scopes, scan sessions, both with FIFO eviction | scan, page, selection commands | a command acts on the session and selection it names, or fails |
| Results and selection | `apps/desktop/src-tauri/src/results.rs` | query cursors, selection set and revision | query page, update selection, summary | the pages of a query enumerate it once; an update is atomic with its revision |
| Elevated broker | `crates/elevated-broker`, `broker-client`, `broker-protocol` | session (nonce, sequence), open handle, revalidation cadence | hello, open, read, close over a pipe | only reads inside the opened source, in sequence; no answer is attributed to another request |
| Source readers | `crates/io-common`, `io-windows` | handles, geometry, folder scopes | bounded reads, volume enumeration | reads stay inside the source |
| File systems | `crates/fs-ntfs`, `fs-fat`, `fs-common` | parser state | boot sector, MFT, attribute runs, FAT chains, directory trees | bounded, terminate on corrupt data, regions inside the volume |
| Partition tables | `crates/partition` | none | MBR and GPT parsing | extents inside the disk; extended chains terminate |
| Carving | `crates/carving` | parser state | signature search, JPEG structure | bounded, no overlap with excluded regions |
| Core model | `crates/core` | none | candidates, regions, recoverability score | score bounded; extraction equals the regions |
| CLI | `crates/cli` | per invocation | inspect, scan, extract from images | never writes to the image |
| Results workspace | `apps/desktop/src/state/resultsWorkspace.ts` | shown query, page, cache of pages, selection, queue of tasks | page, query, select; one native call at a time | page n is the n-th page; the check boxes are the selection; loading and updating end |
| Restore workflow | `apps/desktop/src/state/restoreWorkflow.ts` | phase, plan, job, queue of polls and cancellations, timer | choose, plan, start, poll, cancel, open | what is reviewed was agreed to; a late answer never shows through; a job that runs is polled until it ends |
| Front-end contract, views | `apps/desktop/src/api`, `views`, `components`, `state/storageScan.ts` | none, or one scan at a time | parse and check every answer | an answer that contradicts an earlier one is refused |
| Fixtures, CI scripts, docs | `crates/fixture-builder`, `.github/scripts`, `docs` | none | | |

How they interact. The front end calls Tauri commands. `storage.rs` runs a scan
through the readers and parsers (in-process for images, through the elevated
broker for physical volumes) and stores a session; `results.rs` pages over its
candidates and keeps the selection. `restore.rs` takes a snapshot of the
selection, builds a content plan per candidate (`crates/restore/src/plan.rs`),
and at start re-validates that nothing it depends on has changed, inserts a job
and spawns a worker thread that runs `DestinationRoot::restore_job_observed`.
The worker reports through an observer and a progress sink; the user's cancel
sets an atomic flag the engine polls.

What is hard: the job directory is shared with other programs and outlives the
process; a file becomes visible by a hard link and is recorded afterwards, so a
crash, a power loss or a failed append can fall in between; commands of the
desktop run concurrently and drop their lock around file system work; sessions
are evicted while plans refer to them; the broker is another process that may
stall, die or send half a frame; disks change their numbers and volumes are
formatted while handles to them are open; other programs write to the volume that
is scanned; a dialog may be left, and its late answers come all the same; corrupt
disk data drives loops and sizes.

The hazards, each at its line, are listed in `PROJECT.json`.

## 2. Modules

How they fit together:

    PublicationPromise <- RestoreTransaction -> EngineReports <- RestoreCoordinator -> SelectionStore
                                ResultsWorkspace EXTENDS ResultsSession -> SelectionStore
                                RestoreWorkflow                EXTENDS     SelectionStore

    MCScanSource > DestinationRoot > ScanAuthority > BrokerSession > RawVolume > Devices

    MCVolumeScan > ImageLayout > Lists
                 > NtfsScan > NtfsVolume > NtfsNamespace > Lists
                 > FatScan > FatVolume
                 > ContentStream, JpegCarver > NtfsContent
                 > ContentStream > Lists

(`>` is EXTENDS, `->` and `<-` an INSTANCE.) `Lists` has a list
that is filtered, sorted, folded or flattened, in a form that a proof can take apart;
`ResultsSession` and `RestoreWorkflow` extend it too, for their filters. Three layers: what the user sees and
asks for, how a device is reached, and what is made of its bytes.

`EngineReports` and `SelectionStore` are the two interfaces. `RestoreTransaction`
is shown to report as `EngineReports` says (`ReportsInOrder`), and
`RestoreCoordinator` runs its workers on those reports; `ResultsSession`, driven
by the front end, is shown to be a `SelectionStore`
(`ImplementsSelectionStore`), and `RestoreCoordinator` takes its selections from
one. So what is shown of the coordinator does not rest on an engine or a store
more orderly than the code. `RestoreWorkflow` takes its selections from the same
store. Downwards, `ScanAuthority` reduces a scanner to the reads it makes, since
no scanner acts on when or by whom a read is served; the modules of
`MCVolumeScan` reduce the device to bytes and failed reads.

### RestoreTransaction

One worker, `pc` naming the code between two system calls that can fail or be
seen from outside. The state is the engine's (`index`, `attempt` =
`collision_index`, `sidecar`, `synced` = merged `NamespaceDurability`, `results`,
`failure`), the journal (`journal`: the records that were synchronized, `tail`:
what a failed append may have left, `poisoned`), the job directory (`tree`: for
every parent and name what it shows, for which item, and whether its parent was
synchronized since), and what others saw (`observed`, `announced`, `returned`).

Every system call of the code is an action that may fail; `FailItem` is the
error arm of the item loop and is part of the action whose call failed. The
surroundings are `RequestCancel` (at any time), `ForeignCreate` (another program
takes a name, at most `MaxForeign` times), `Crash` (the process dies: what is in
the directory stays) and `PowerLoss` (what was not synchronized may be gone).

Abstracted: contents, hashes and temporary files (their names are unique and
never final); the identity checks before a link (one more way to fail); parents
deeper than one directory (the code repeats the same step per component). The
properties are about names, records and outcomes only. Assumed: `sync_all` on a
directory makes its entries and the directory itself survive a power loss;
an append whose `sync_all` returned survives it too.

### PublicationPromise

What a reader of a job directory may rely on, in six actions: items are
announced one at a time, shown only when announced, vouched for only while
shown, the job is sealed only when everything shown is vouched for, "ok" is
answered only when all is vouched for and sealed, and a power loss takes things
away but adds none. `RestoreTransaction` implements it under the mapping at its
end (`KeepsPromise`, checked by TLC).

### EngineReports

What the caller of `restore_job_observed` learns, as a function from what it
knows to the set of what it may learn next. No state of its own.

### SelectionStore

The scan sessions of `storage.rs` for whoever depends on a selection: stored,
changed together with the revision, evicted oldest first.

### RestoreCoordinator

The commands of `restore.rs` run on blocking threads, so several are in flight
(`call`, one per caller). A command takes the storage or the coordinator lock for
short sections and does its input and output between them. An action is one
section with the unlocked work before it, which may fail: `OpenPicker`,
`ClosePicker`, `AdmitDestination` (select_restore_destination);
`SnapshotSelection`, `CheckPlan`, `InsertPlan` (create_restore_plan);
`Preflight`, `CommitStart` (both locks, storage first), `Launch` or `Withdraw`
when the thread cannot be spawned (start_restore); `RequestCancel` sets the flag,
`MarkCancelling` the status (cancel_restore). A worker (`thread` and `engine` of
the job) begins, fails to open its source or streams and gets reports, and ends.
`get_restore_job` and `open_restore_destination` change nothing and have no
action.

Abstracted: a plan and its job share one id (`engine_job_id` is made with the
plan); every item has `ItemBytes` bytes; policies, labels, digests; free space
and disk separation are ways to fail. That no code takes the coordinator lock
before the storage lock was read, not checked.

### ResultsSession

The queries, cursors and selections of `results.rs` in the sessions of
`storage.rs`, each command one step under the storage lock. A query id and a
cursor are digests in the code and here the fields that are digested. Filters
and sorts are constant tables; a summary is reduced to what is selected and
whether its bytes fit an `u64`.

### ResultsWorkspace

The hook `useResultsWorkspace` against `ResultsSession`. An action is a turn of
the event loop: what the user does (`ShowScan`, `HideScan`, `ScheduleIntent`,
`RefuseInput`, `NextPage`, `PreviousPage`, `ClickSelection`) or the end of a
native call (`SettlePage`, `SettleSelection`), with everything up to the next
await, the pump of the task queue included. `NativeCall` is the command between
the two; it can take effect and lose its answer, or get lost (`CallsFail`).
`untold` remembers that an update took effect and its answer was lost: what is
shown may then be old, and two properties say so.

Selections that have become pointless are dropped from the head of the queue by
`Pump`, all in one turn, as the code's chain of microtasks does; more than one can
wait when an input was refused while a page was loading.

Abstracted: `requestRevision` and `intentRevisionRef` equal `query.revision` and
`generationRef` changes exactly when the scan does, and a scan is shown once, so
neither is a variable of its own. The local checks of search text, score range
and candidate ids are `RefuseInput`. Unmounting (the application closes) is left
out.

### RestoreWorkflow

The hook `useRestoreWorkflow` with the buttons of `RestoreWorkflowDialog.tsx` as
guards. An action is a turn of the event loop: the user's (`ChooseDestination`,
`SetPolicy`, `SetConsent`, `CreatePlan`, `Start`, `Cancel`, `OpenDestination`,
`Close`), the poll timer, the effect of another scan or another selection
(`ScanEffect`, `SelectionEffect`), or the answer to a native call with all that
follows (`SettleDestination`, ..., `SettleOpen`). `ui` is the hook's state, `refs`
its refs (generation, intent, the queue of operations, timer), `calls` what has
been asked of the native side and not been answered. `Pump` is part of every
action that queues or ends an operation. The native commands are one step each
(`RestoreCoordinator` has them in detail); those that are no `async fn`
(`Synchronous`) are carried out and answered in the order they were sent, since
Tauri runs them on its main thread. Any of them may fail, or be carried out and
lose its answer.

The scan can change while the modal dialog is open, when a refresh of the
inventory that began before the scan ends after it (`storageScan.ts`,
`refreshInventory`, does not look at `scanInFlight` once more); so can the
selection, by one update that was queued in the workspace when the dialog opened
(`ClickSelection`, `TakeUpdate`).

Abstracted: statuses (queued counts as running; failed and cancelled as stopped);
progress; labels. The hook's local refusals in `createPlan` and `start` cannot be
reached from the dialog, whose buttons are disabled in those cases, and have no
branch. The table of last snapshots in `api/storageDesktop.ts`, which refuses one
that goes backwards, is left out: in the order of the answers none does. Unmounting
is left out.

### Devices, RawVolume

`Devices` is the machine, none of it the repository's: disks are pulled and put
back under another number (`Detach`, `Attach`), a volume is formatted (`Format`),
the record of a chosen folder is used again (`ReuseRecord`); at most `MaxChanges`
times, faults of the session included. It states once what an enumeration answers
and what a handle still reaches.

`RawVolume` is the elevated broker's source: `open_raw_volume` between two
enumerations, the serial number of the handle, the proof before serving, and
`revalidate` with its cadence of reads and seconds (`RevalidationDue`). Each
Windows query is a step, so the devices change between any two. `late` counts the
reads served when the identity is gone and the second is over; it is there for the
property only.

### BrokerSession

`ProtocolReadSession` and `BrokerSourceReader` of `broker-client`, `serve_session`
of `elevated-broker`, and one frame at most between them. `Launch` and `Accept`
bring the session about; `Greeted`, `SourceOpened`, `StartRead`, `ReadAnswered`,
`SourceClosed` are the client's turns, `Receive` and `Finish` the broker's. A frame
is a record of sequence number and message; that encoding and decoding are inverse
to one another is not modelled. Faults, at most `MaxFaults`: the broker dies; a frame is
an old or a later one; a reply does not fit its request, or does not decode. The
branches of `serve_session` that answer AuthenticationFailed, ReadOutOfRange and
InvalidRequest are there, but a client that greets first and checks its own ranges never
brings them about.

### ScanAuthority, DestinationRoot

`ScanAuthority` is the native side of a scan in `storage.rs`: the inventory and its
generation, the folder that is picked and found again by its path, the scan with
its reads, the session that is stored, each bound to what the user was shown. One
command runs at a time, as the front end sees to.

`DestinationRoot` is `DestinationRootBinding` of `io-windows` with the checks of
`restore.rs` that keep what is recovered off the disk it is recovered from: the
choice, the admission, the plan, the start, the reopening of the source by the
worker (`ReopenSource`, another broker session) and the start of the engine. One
restore of one scan; commands, locks and jobs are `RestoreCoordinator`'s.

### NtfsVolume, NtfsNamespace, NtfsScan

`NtfsVolume` is the table of a mounted volume and the programs that use it: files
are deleted, moved, linked, made in freed records. `links` remembers every parent
and name that was true since the scan began, which is what answers are measured
by. `NtfsScan` is `scan_ntfs`: batches, record by record where a batch fails,
retained directories and deleted records within budgets, extension records,
candidates. `NtfsNamespace` holds the pure part: the paths of a record within
limits, membership in a folder, the path that is shown.

A record is whole, torn or of another kind, and its names are values. The code recurses
from a name to the names of its parent directory; here the ways up from all names are a
function of the depth that is left, each computed from the one before. `Reaching` and
`HavingPath`, which say what was true of the volume, are made the same way. `Trees`, the
tables a scan may find, is bound by what NTFS guarantees (`TreesAssumption`): the root is
a directory and stays one, an alias comes with the name it is for, and a file that has all
its attributes in its record has a name there.

### NtfsContent, ContentStream

`NtfsContent` decodes run lists (numbers of one to `MaxWidth` digits, the sign in the
highest), reads `$Bitmap` through its own runs, cuts extents where the allocation
changes or the initialized data ends, and derives the state of a candidate.
`ContentStream` plans the segments (`plan.rs`) and streams them chunk by chunk from a
source that may fail to read and report any ranges as bad (`stream.rs`), with
evidence and hash. `task.truth` says what the file was, and is seen by no step.
The plan and the merging of bad ranges sort and fold with `Lists`.

A file has one unnamed `$DATA` attribute: alternate streams and the pieces of a stream in
extension records are left out, and so are the branch for a resident `$Bitmap`
(`scan.rs:1917-1938`, the same bits from the record itself) and the limit on the number of
runs (`runs.rs:20`, which refuses the attribute as any bad run list does).

### FatVolume, FatScan

`FatVolume` is a volume and the driver that has used it: entries made and removed,
chains cleared, unless the machine stops in between (`torn`). `gen` says of a slot
and of data which file they are of; the scanner does not see it. `FatScan` is
`fs-fat`: the table is read once, directories alive and deleted are walked in
depth. The packing of the table in 12, 16 and 32 bits, the fixed root directory and
the sequence numbers of long name pieces are not told apart. Where clusters of a deleted
directory now hold the data of a file, `SlotsRead` finds no entries in them; the code would
take the data for entries. What is read of such a volume is excluded from `FatScanIsTrue`
(`SomeTakenOver`), and the run `fat_retained_chain` shows what comes of reuse (section 6).

### JpegCarver

`crates/carving` as `crates/cli/src/deep.rs` drives it: regions of free clusters, chunks
with one byte carried over, the incremental validator, every limit, unreadable
bytes, and the merge with the deleted files known from metadata. All candidates known
before are from NTFS metadata, and no offset is found twice, so the filter by method and the
coalescing of duplicates in `merge_carved_evidence` have nothing to do and are left out.

### ImageLayout

`crates/partition` and the loop of `crates/cli/src/lib.rs` over the volumes found. The
image came about by a partitioning tool that wrote one layout over another and may
have been stopped between any two sectors, and by damage.

One assumption about the tool matters: to make an MBR disk of a GPT disk it first wipes both
GPT headers (`Clearing`). `discover` prefers any sound GPT copy to an MBR
(`partition/src/lib.rs:65-72`), so after a tool that leaves a header behind it would report
the old layout; `PartitionsAreSound` does not speak of such a tool. A boot sector is a
record of what its fields decode to. Not among them are the sizes of sectors and file records,
sectors per cluster given as an exponent (`fs-ntfs/src/boot.rs:51-62`) and a 16-bit FAT size
in a FAT32 sector (`fs-fat/src/boot.rs:115`); a sector that only those checks refuse is not
among the boot sectors here.

### MC modules

`MCRestoreTransaction` holds a plan of two items, `FileThenFolder`: a file with best
effort below directory `a`, then the directory `a` itself, so that the parent
created for the first takes the name of the second. `MCRestoreCoordinator` holds the
symmetry of ids that are only compared, used by the one run without liveness.
`MCResultsWorkspace` holds three candidates, two filters, a sort that is not the
order of the ids, and sizes of which two fit and three do not. `RestoreWorkflow` is
checked as it is. `MCScanSource` has two disks and two reads. `MCVolumeScan` puts the
five readers of bytes side by side: they call each other with values and share no
state, so a behaviour runs one of them (`job`) and the states add up instead of
multiplying; it also holds their inputs.

Definitions whose names end in `Bug` are mutations of the definition that
follows them. They are used nowhere in a specification; putting one in place of
the definition makes the run listed for it in `PROJECT.json` fail, which shows
that the property sees that part of the code.

## 3. Runs

| Run | Question | Bounds |
|---|---|---|
| `restore_crash_cancel_collide` | do journal, manifest, observer and directory agree at every moment, after every failure, and does the call return | 2 items, 2 collision names, 1 foreign name, a journal of 10 records, full at the end of the longest executions |
| `restore_record_limit` | is an unrecorded link always answered by "needs reconciliation" | a journal of 2 records; violated, see section 6 |
| `coordinator_commands` | does a plan run at most once and on the confirmed selection, whatever overlaps | 2 commands in flight, 2 sessions of which 1 is kept, 2 selection changes, 3 plans against a limit of 2, 2 destinations against 1, 1 retained job |
| `coordinator_jobs` | is what a job shows legal, does it move forward, does it end as the engine ended, and does it end | 1 plan of up to 3 items, 2 commands in flight |
| `coordinator_progress` | do the bytes shown never decrease | 1 item; violated, see section 6 |
| `results_workspace` | is what the view shows what was asked for, and does it come back to rest | 3 candidates, pages of 1, a cache of 2, 2 scans of which 1 is kept, 2 selection changes, 1 change of query after the first, calls and answers that get lost |
| `results_cursor` | are cursors valid as long as scan, query, sort and revision are the same | no lost calls; violated, see section 6 |
| `results_update` | are the controls disabled while an update runs | a refused input while loading; violated, see section 6 |
| `restore_workflow` | is what is reviewed what was agreed to, is the job shown the one reviewed, is a job followed to its end | 2 scans of which 1 is kept, 1 candidate, 2 revisions, 2 plans, 2 failed polls in a row, 1 other call that goes wrong, 3 dialogs or scans left |
| `scan_source` | are reads what was asked for, is a lost source lost, does a scan end, is nothing restored to the disk it is read from | 2 disks, 2 changes of the machine of which 1 may be a fault, a source of 2 units in pieces of 1, 2 reads, an interval of 2 |
| `volume_scan` | is what is concluded from the bytes of a source true of it | see "Volume scan" below |
| `fat_retained_chain` | is a retained chain the deleted file's own | the FAT part alone; violated, see section 6 |

The properties of each run, stated in full above their definitions:

- `restore_crash_cancel_collide`: what is visible was announced (`IntentIsDurable`), a
  partial file never without its sidecar (`SidecarBeforeData`), what the journal
  claims is there, after a power loss if it claims it durable (`ClaimsAreTrue`), the
  manifest agrees with journal and directory (`ManifestIsTrue`), so do the events
  (`ReportsMatchTree`, `ReportsInOrder`), success is complete
  (`SuccessIsComplete`), a failed journal write ends publication
  (`PoisonStopsPublication`), the engine implements `PublicationPromise`
  (`KeepsPromise`), the call returns (`EveryJobReturns`); and `TypeOK`.
- `coordinator_commands`: a plan has one worker at most and is used up exactly when it has a
  job (`PlansRunOnce`), `RevisionNamesSelection`,
  `StartsConfirmedSelection` and the limits (`RetentionBounds`); and `TypeOK`.
- `coordinator_jobs`: once cancelled, a job is never shown as queued or running again
  (`CancelSticks`), its snapshots and its end are the engine's (`SnapshotsAreTrue`) and go forward (`SnapshotsAdvance`), jobs end
  (`JobsEnd`).
- `results_workspace`: page and check boxes (`PageIsTrue`), an update takes
  effect only on the selection that the user is shown (`UpdatesAreInformed`), the sessions
  implement `SelectionStore` (`ImplementsSelectionStore`), `ViewComesToRest`.
- `restore_workflow`: `ReviewIsAsAgreed`, `DialogFollowsItsJob`, `JobIsFollowed`.
- `scan_source`: a read returns the bytes asked for (`ReadsAreAnswered`), few reads pass
  between a loss and its notice (`StaleReadsAreFew`), no data after the client was told of it
  (`IdentityLossIsFinal`), `SeparateDisks`, `FolderIsTheChosenOne`, `ScansEnd`.
- `volume_scan`: folders and paths are true (`NamespaceIsTrue`) and a complete scan has
  every deleted file (`CompleteScanMissesNothing`) on NTFS, both on FAT
  (`FatScanIsTrue`), a restored file is its truth or says where not and takes nothing
  that is in use (`ContentIsTheFiles`), it is what candidate and evidence together say, unit
  by unit (`OutputIsAsReported`), what is carved is whole and free (`CarvingIsTrue`), the
  volumes of an image are those of its disk (`PartitionsAreSound`).
- Violated: `UnrecordedLinkNeedsReconciliation`, `ShownBytesNeverDecrease`,
  `CursorsStayValid`, `ControlsWaitForUpdate`, `RetainedChainIsItsOwn` (section 6).

Restore engine: two items are enough for the interesting orders, one published
before one that fails, one whose parent is the other's name, one never
attempted. Two collision names reach both the retry and the limit; one foreign
name takes any of the names the job wants, the manifest's too, at any time. With
ten records a file without a sidecar still ends in success, and one with a sidecar
finds the journal full at the last record; `restore_record_limit` has a journal
that is full right after a link.

Coordinator: two commands race with each other and with the worker, and a third
would only repeat one of them; limits of one and two are exceeded by the two
destinations and three plans. A job of three items has one done before, one
during and one after whatever happens.

Results: three pages and a cache of two make one page fall out; a lost answer
makes the next update stale; one query change suffices to make an answer late,
with selection changes before and after it. `MaxRevision` is 2, since an update
is misinformed only from the second on, and it is also the limit at which an
update is refused, so the refusal at `u64::MAX` occurs. In the passing run an
input is refused only while a page is shown: with
`InputErrors` containing "loading" the finding of `results_update` makes
`PageIsTrue` fail as well.

Restore workflow: with two scans or dialogs, each with a job, every answer of the
first can come in the second. Three failed polls in a row lose a job in the code
(`MaxPollFailures`); two distinguish a failure that is repeated from one that is not.
Polls fail as often as they like, other calls once, since after a failure the
dialog is in a state that the user has to leave. Two revisions let a selection
change once under a dialog. An answer to an update of the selection that is lost is
left to `ResultsWorkspace`.

Scan source: two changes are what it takes to exchange a disk and give its number to
another one, or to put a disk back under a number that was taken. An interval of two
reads is exceeded by the pieces of two reads. There is one volume of each kind, the
source and the target, on the same disk or on two.

Volume scan. NTFS: six records, of which four are the user's: a directory with an alias in a
directory, a file in it, live or deleted, and an extension record or a torn or
foreign one; two changes by other programs, one record that fails, batches of two, and budgets that
are met. FAT: clusters 2 to 6, two clusters per directory, three changes by the
driver, one unreadable cluster. Content: digits of base 4 in place of bytes, up to four per number, so
that signs, widths and overflow all occur; nine files whose extents lie forwards,
backwards, with holes, cut in a cluster or initialized in part; up to three units
that cannot be read, in buffers of three. Carving: disks of 88 bytes, the smallest
pictures there are, in a row, nested, across chunks of eight; limits that are met
with some disks. Images: 17 sectors, GPT, MBR with a chain and with one that loops,
or no table, any of them written over any other one and stopped anywhere, one
damaged sector.

Deadlock checking is off wherever the system may stop: a job ends, a scan ends, and
a user who has seen every scan or has closed the dialog may do nothing more. It is on
in the coordinator's runs.

## 4. Fairness

`RestoreTransaction!FairSpec` assumes weak fairness of the worker's steps only:
it runs on a thread of its own, takes no lock, and every system call returns.
Crashes, cancellations and other programs are never forced to happen.
`EveryJobReturns` does not ask a killed process to return.

`RestoreCoordinator!FairSpec` assumes weak fairness of every caller's next lock
section and of every worker: they are threads, the locks are held for short
sections only, and the engine returns (the property above). The folder picker is
not fair: the user may leave it open for ever. No command is forced to begin.

`ResultsWorkspace!FairSpec` assumes weak fairness of `NativeCall` and of the two
settling turns: a native command answers or fails, and the event loop runs. The
user is not forced to do anything.

`RestoreWorkflow!FairSpec` assumes weak fairness of every native command but the
picker, of every settling turn but the picker's, of the poll timer, and of every
worker (`JobsEnd` of the coordinator says that a worker ends). `JobIsFollowed` so
holds whatever the user does and whichever polls fail.

`DestinationRoot!FairSpec` assumes weak fairness of `Work` and of `Processes`: Windows
answers its queries, the elevation prompt is answered one way or the other, both
processes run. `ScansEnd` does not assume that the broker lives or that frames fit.

`volume_scan` has no liveness property and no fairness; that a scan of corrupt data
terminates is seen in that its states are finite and no counter but named limits
bounds them.

## 5. Proofs

`RestoreTransactionProofs` proves for every plan, every set of names, every
collision function and every bound (the named assumptions of
`RestoreTransaction`, each of which the code enforces when it builds a plan):

- `TypeCorrect`: `TypeOK`. It is not inductive: `index + 1` stays in range only
  because the phases of an item are entered with an item of the plan, which
  `TypeInv` adds. The type is split in five parts, one per group of variables,
  and each group of actions has a lemma.
- `WriteAhead`: `IntentIsDurable`. The inductive invariant `IntentInv` adds what
  has been recorded on the way: from `journalPrepared` to the link the journal
  holds `itemPrepared` of the current item; before `create_dir` it holds a plan
  of the very name about to be tried, which is why a retry goes back to
  `planDirectory`; before the manifest's link it holds `manifestPrepared`. The
  argument is that the journal only grows (`AppendedGrows`), that the steps
  which link are exactly those with such a record (`PlacedIntent`) and that
  every other step, a power loss included, adds no name of ours (`QuietIntent`).
- `PoisonStops`: `PoisonStopsPublication`, from `PoisonInv`: a poisoned journal
  means that the call has returned.

Its second part proves the other safety properties of the run
`restore_crash_cancel_collide`, from the same assumptions and one inductive invariant,
`OutcomeInv`. None of the five is inductive, and each needs facts about where the
job stands that the others need too; so `OutcomeInv` is built in parts, each proved
with the parts before it and named for what it ties together:

| part | ties | why it is needed |
| --- | --- | --- |
| `ProgressInv` | `pc`, `index`, `results`, `failure` | in which phases an item has failed, and that a failure belongs to the current item |
| `ObservedInv` | the observer and `index` | each finished item was told its disposition, none after `index` was told anything |
| `RecordInv` | the journal and `index`, `failure` | each record is of an item reached and says what became of it; a failed item has its record before the manifest is linked |
| `LinkedInv` | the manifest's name and `pc` | no record of an item follows the link of the manifest |
| `PlaceInv` | the location just linked and the directory | what `bindDirectory`, `syncData` and the sidecar's record speak of is there, though any name may be lost by a power loss |
| `EntryInv` | every entry of ours in the directory | its item, its kind, and that a later item has none |
| `ClaimInv` | records and entries | a publication record's entry is at its location, as durable as it says |
| `SealInv` | the prepared manifest, its prefix and the directory | the outcomes were read when no item could change any more |

From it: `RecordsAreTrue` (`ClaimsAreTrue`), `SidecarFirst`
(`SidecarBeforeData`), `ReportsAreTrue` (`ReportsMatchTree`),
`ManifestTellsTheTruth` (`ManifestIsTrue`) and `SuccessMeansEverything`
(`SuccessIsComplete`).

Its third part proves the two refinements of the engine:

- `PromiseKept`: `KeepsPromise`, that is `Spec => Promise!Spec` under the mapping of
  `RestoreTransaction`. Each group of steps has a lemma that says what it does to the
  mapped values: nothing, or one action of `PublicationPromise`. The power loss is
  the hard step: it takes names away, and `ClaimInv` says that none of them was vouched
  for.
- `ReportsAsModelled`: `ReportsInOrder`, so the coordinator's workers
  run on what the engine really reports, for every plan and every number of items.
  `ObservedInv` is what makes the mapped report a function of the state.

`RestoreCoordinatorProofs` proves, for every number of callers, plans, sessions,
candidates and destinations and every limit, all that the run
`coordinator_commands` checks:

- `CoordinatorTypes`, `PlansRunAtMostOnce`: `TypeOK` and `PlansRunOnce`, whose parts are
  `OneWorkerPerPlan` and `StartedIffJob`. None is inductive by itself; together
  they are, with three facts about commands between two lock sections
  (`StartInv`): a start that has committed and not returned has its job to
  itself, and the job has no thread; whoever spawned a worker left a thread on
  the job; a cancellation in flight is of a job with a thread. So a launch finds
  no worker, a withdrawal undoes no launch, and a late cancellation never writes
  to a job that was withdrawn. The actions fall in five groups with a lemma
  each: commit, launch, withdraw, those that write to a launched job
  (`LaunchedJobChanges`) and bystanders (`BystanderCall`).
- `RevisionsNameSelections`: `RevisionNamesSelection`. `NameInv` adds that plans
  and the snapshots that commands carry name a session that was stored, at a
  revision not later than its present one. Every change of a selection counts its
  revision, so a changed selection has a later one (`NamesStay`).
- `StartsAreConfirmed`: `StartsConfirmedSelection`. The only step that makes a
  job appear is a commit (`JobChanges`), and the commit reads the session.
- `ListsAreBounded`: `RetentionBounds`, which needs no assumption that there are
  finitely many ids: the retained sets are finite because each step adds one.

The rest of the module proves all that the run `coordinator_jobs` checks but for its
end (`JobsEnd`), from `SnapshotInv`. Its main part, `JobIsSound`, speaks of one job
and of nothing else: its counters are what the engine has reported, its status goes
with its thread, and its manifest, once it has ended, with its counters. So each write
to a job is a lemma about one record (`BegunAdvances`, `AskedAdvances`,
`ObservedAdvances`, ...), which shows that the new record is sound and a legal successor
of the old one, and `JobSteps` shows that a launched job changes in no other way. Two
more parts speak of commands: a start that has committed still has its job as it was
queued, and `CancelSticks`.

- `CancellationsStick`: `CancelSticks`. The command that set the flag is between its two
  writes, or the status shows the request, and a worker that begins leaves it.
- `SnapshotsTellTheTruth`: `SnapshotsAreTrue`.
- `SnapshotsOnlyAdvance`: `SnapshotsAdvance`, an action property. That the totals of a
  job do not change (`TotalsStay`) rests on `StartedIffJob`.

The only assumption beyond the limits' types is that a scan finds finitely many
candidates (`CandidatesAssumption`). `StartInv` was checked by TLC on the
instance of `coordinator_commands` before it was proved, `SnapshotInv` on that of
`coordinator_jobs`.

`ScanSourceProofs` proves three properties of the run `scan_source`, for every set of
disks, every source length and interval, and any number of changes and faults:

- `FewStaleReads`: `StaleReadsAreFew`. `SourceInv` adds that the number the volume was
  listed under is not newer than the proof (`Listed`), that `late` never exceeds the
  count of reads since the last proof, that the count restarts only with a proof that
  found the identity, and that the source works only while the broker serves.
- `RecoveryGoesElsewhere`: `SeparateDisks`. The policy compares two disk numbers taken
  at different times. `DiskInv` adds why that suffices: as long as the destination's
  directory handle is alive, its disk was never taken out, so it still has the number
  it was admitted under (`DestinationKept`), and the source's number is asked again
  when the source is opened for the restore (`NumberIsFresh`): were both on one disk,
  that number would be the destination's.
- `ScannedFolder`: `FolderIsTheChosenOne`, from `FolderInv`: while a scan runs its folder
  is of the inventory shown and of the volume asked for.

They assume nothing beyond the types of the constants. Each invariant was checked
by TLC on the instance of `scan_source` first.

The second half of the module goes on with the other two properties of `scan_source`, for
every length of the source, of a read and of a piece, and any number of faults. Its
invariant is `ReadInv`, that is `DiskInv`, `Idle` and six facts about the conversation,
`Talk`:

| part | says | why it is needed |
| --- | --- | --- |
| `Turns` | while the broker works the pipe is empty; while the client has nothing under way, both are at rest | an answer can only be to the request that is open |
| `SoundRead` | what the client has is a part of its read that is in its place, all of it, or nothing | the property, made inductive over the pieces |
| `OlderThan` | a frame that was taken has a lower number than the next one | an old frame that comes again is refused, whatever it holds |
| `TheQuestion` | the request under way, and the read the broker works on, is the piece wanted | an answer that fits is of that piece |
| `TheAnswer` | a new frame to the client holds that piece, none, or an error; one of the identity's comes from a source that is dropped | what a fault leaves of an answer either does not fit or is right |
| `LostForGood` | after such an error the source stays closed | only an OpenSource opens it, and `Turns` says that none is under way |

- `ReadsDeliverTheRange`: `ReadsAreAnswered`.
- `LossIsFinal`: `IdentityLossIsFinal`.

The conversation was also checked by TLC, with two faults and three changes, before it
was proved.

`ResultsProofs` proves the safety properties of the run `results_workspace`, for every
number of scans, candidates, filters and sorts, every page limit, every size of the
cache and any number of calls that get lost. Two invariants carry it. `ViewInv` is the
type of every call, answer, page and cached page, with what relates view and session:

| part | says | why it is needed |
| --- | --- | --- |
| `Sound` | the scan shown is kept; the selection shown is `Informed` | the revision is what an update is checked by |
| `Informed` | a selection that was told is not ahead of the session, and is the session's if the revisions are equal | revisions name selections, also over a lost answer |
| `Reached` | every page has its cursor in the history it was reached through | going back finds a cursor |
| `Flying` | a call is that of its task; its answer is informed; an update that was sent expects the revision still shown | what is shown cannot change under an update |

- `UpdatesMeanWhatIsShown`: `UpdatesAreInformed`.
- `SessionsImplementTheStore`: `ImplementsSelectionStore`. A page that is read, a
  refused update and every turn of the hook leave the store as it is (`SessionsChange`).
- `PagesAreTrue`: `PageIsTrue`, from `PageInv` on top of `ViewInv`:

| part | says | why it is needed |
| --- | --- | --- |
| `TrueView` | the cursor of page n ends where n pages end (`PathOK`); the page shown and the cached pages of its query are cut from the listing there | a page is read by its cursor and shown by its number |
| `TrueMarks` | at rest the check boxes are the selection | |
| `FlightTrue` | a page task knows its place (`Placed`) and is not ahead of the view (`NotAhead`); an update's page is still shown (`InPlace`); an answer is the page that was asked for | a late answer is either of the query shown or refused |
| `Orderly` | only the query shown ever waits, for a call that it made stale; while a page is shown the one call is its own, and the controls are off | the refresh after an update takes the cursor from before it and the number from after it |
| `InStep` | unless an answer got lost, the selection shown is the session's or comes with the answer | rows of a filter by selection depend on it |

`PagesAreTrue` assumes `"loading" \notin InputErrors`: no search text or score range is
refused while a page is loading. Without it `PageIsTrue` is false, which is the finding
`results_update`. `PageInv` was checked by TLC on the instance of `results_workspace`,
with errors that are refused while one is shown added.

`RestoreWorkflowProofs` proves the safety properties of the run `restore_workflow`, for
every number of scans, candidates, destinations, plans, dialogs, intents and faults. Its
invariant is `WorkflowInv`. A dialog is left and opened again while calls of the earlier
one are in flight, so the invariant speaks of every call that is in flight or waits in the
queue, and says what its answer may still do:

| part | says | why it is needed |
| --- | --- | --- |
| `EnvOK` | the selection shown is not ahead of the session, and behind it once an update was taken | a plan that was asked for before the page changed has another revision |
| `ConsentOK` | a consent is to zero filling and, up to the review, to what is shown | the consent is given steps before the plan is made |
| `ReviewOK`, `JobOK`, `TimerOK` | the plan under review is the one wanted; there is a job in just three phases, and what is shown of it is `Behind` what it has come to; the timer runs only while it is | the properties, made inductive |
| `Fits` | what a call and its answer are by its kind: the answer to a plan names a plan that is kept as it was asked for | plans are never overwritten (`PlansStay`) |
| `Awaited` | a call of this generation is of the plan and the job shown; if it `Counts` (its answer will be taken as current), the phase is the one that waits for it, and the snapshot it brings is between the status shown and the job's | late answers |
| `OneCounts` | at most one call counts | what is left in flight after a turn does not speak of the dialog any more |

Each turn is then one of a few arguments: the dialog is left, and all calls are of an
earlier generation (`NewGeneration`); it is edited while it waits for nothing (`Edited`) or
asks while nothing counts (`Asked`); a cancellation or an opening makes all operations
older than its intent (`NewIntent`, `Superseded`); the call that counts is received, and
none is left that does (`Departed`); the native side moves jobs on (`LaterAwaited`), which
keeps true what an answer said. `Pump` moves the head of the queue behind the calls, so
`calls \o refs.queue` is what the invariant is about, and it never changes that
(`PumpKeeps`).

- `CallsAreAwaited`: `WorkflowInv` itself.
- `ReviewsAreAgreed`: `ReviewIsAsAgreed`.
- `DialogsFollowTheirJob`: `DialogFollowsItsJob`, an action property, from the invariant
  before and after a step and from `Onward`, which each turn is shown to satisfy.

The proof also shows that the first branch of `failJobOperation`, for a job that has
ended, is never taken: no operation of an ended job counts (`FailureStep`). The invariant
was checked by TLC on the instance of `restore_workflow` first.

`VolumeScanProofs` proves two properties of the run `volume_scan`.

The first half proves `OutputIsAsReported` of the run `volume_scan`, for every list of
extents, every source, every way in which reads fail, every length of the buffer and every
limit (`RestoredAsReported`). The argument follows the data through four layers, and each
is stated unit by unit, so that merging neighbours changes nothing that is said:

| layer | says | where |
| --- | --- | --- |
| lists | what every step of a fold keeps the fold keeps; a list that is arranged is the same list in order | `FoldedKeeps`, `ArrangedSorts` |
| plan | the segments follow one another without a gap; each says of its units what an extent says of them, or that none does (`Backed`); best effort exactly when one is unavailable | `PlanIsSound`, `PlansAreSound` |
| evidence | noting a range adds what it says and nothing else (`Says`), in order and merged wherever two join; ranges that overlap in a report come to the units they cover | `Appended`, `MergedAreTheRanges` |
| stream | `StreamInv` | `StepKeeps` |

`StreamInv` is: the output ends where segment and position say (`PlaceInv`); every unit that
is written, or waits in the buffer, is `Right` by the evidence as it is now (`UnitsInv`);
the evidence is in order, well founded, and silent about what comes after the place it has
been noted up to (`EvidenceInv`), which for a segment of zeros is its end from the first
chunk on; best effort goes with what the evidence says is missing (`EffortInv`). The two hard
steps are those that add to the evidence: what it says of earlier units must not change
(`RightStays`), and a unit that failed is zero in the buffer although the reader left anything
there (`FailedRanges`). That a sound plan passes the second look at it (`SoundPlansPass`) is
why `invalidPlan` is never an answer. Beside the types of the limits it assumes
`CandidatesAssumption`: what is restored is a candidate of the core model, with numbers for
places and one of the known availabilities. TLC evaluates it for every file of the instance,
and checked `StreamInv` on it before it was proved.

The second half proves `PartitionsAreSound` (`PartitionsFound`), for disks of any size, any
layouts before and after, a stop of the tool between any two sectors and any damage. The
invariant is `LayoutInv`:

| part | says | why it is needed |
| --- | --- | --- |
| `DiskOK` | a sector holds something that was once written to one: a header, a table, a boot record of the old or the new layout, a boot sector, garbage or nothing | a parser meets nothing else |
| `Underway` | while the tool works every sector is what the new layout wants there (`Goal`) or has a write to come; a write that is not wanted is followed by another to its sector | the order of the writes, made inductive |
| `Finished` | when nothing is pending every sector is as wanted or damaged | what is found of a tool that was not stopped |
| `Concluded` | the table that is scanned is `Sound`; an image that was refused was not `Recoverable` | the property, for the steps after the table was read |
| `ReportsOK` | each report is of the region in its place | |

What the parsers make of such a disk is stated parser by parser. A header that passes is that
of a layout in the place of that copy (`HeaderHere`), and what its copy gives are the volumes
of that layout (`CopyIsWanted`), so two sound copies of one layout agree and those of two do
not (`GptSurvives`, `GptDisagrees`). The walk along a chain of boot records is where an
undamaged chain puts it after each record and over at the first damaged one (`Ahead`, `Over`,
`WalkGoesOn`, `WalkEnds`), and whatever it meets it returns volumes inside the image
(`ChainIsBounded`), which is what bounds the volumes of a chain that is half overwritten.

Two assumptions say what a disk is. `LayoutsAssumption`: a tool writes at most `MaxEntries`
entries to a GPT, and to an MBR at most one extended partition; its chain has distinct records
inside the disk, none before its first one, is no longer than `MaxEbrChain`, and may lead back
into itself at its end. `CodeAssumption`: what a boot sector has in the place of the
entries is code that reads as no partition of the disk. `parse_mbr` does nothing to tell the
two apart, so a volume without a table whose code does read as a partition inside the image is
taken for an MBR disk; the property says nothing of it. TLC evaluates both for the layouts and
the code of the instance.

`NtfsScanProofs` proves both NTFS properties of the run `volume_scan`, for every table, every
depth, every change that other programs make, every batch, fault and limit. Its inductive
invariant is `ScanInv` (`ScanInvariant`):

| part | says | why it is needed |
| --- | --- | --- |
| `VolumeInv` | the table has sound records; the links it holds are among those remembered | a record that is read says what was true |
| `KnownOK`, entries | each name of a retained record was a link of its generation; the root's entry has the root's sequence | records are retained at different times and used together |
| `KnownOK`, complete | as long as nothing was lost, each deleted file that was passed and never touched is retained as it is (`HasAll`) | the second property, made inductive over records |
| the rest | how far each phase has come; what the namespace and the candidates were made from | they are made once, and nothing is retained afterwards |

Other programs change the table between any two reads (`OthersChange`, `OthersKeepVolume`):
they add links and touch records, and take nothing back of either. One record more keeps
`KnownOK` (`ProcessedIsKnown`), hence so does a batch (`KnownInTurn`).

- `NothingMissed`: `CompleteScanMissesNothing`. To be complete a scan has read all of the
  table and lost nothing, so `HasAll` holds of all records.
- `NamespaceTrue`: `NamespaceIsTrue`. A retained record passes for the parent that a name
  refers to only if it is of that generation, unless it is `Mistaken` (`Generations`); so each
  step from a name to a retained parent follows a link that was true. `TrueWay` says of a way
  up what is wanted of it: whatever directory it passes, the parent reaches by links; and
  a directory it does not pass, it goes round, if the way can be trusted. One more link keeps that (`WayOneUp`,
  `ThroughIsTrue`), so every way that the expansion finds has it (`ExpandedWays`, by
  induction over the depth). `NamespaceFacts` says that the namespace has these ways for every
  name of every record and no others, which a "noMatch" needs as much as a "match" does, and
  `WalkIsTrue` is the same argument for the path that is shown. No limit of
  the namespace can make an answer wrong, since each clears `complete` or leaves a path
  untrusted.

A sequence number that wraps round names an old generation again; both properties hold of
generations that are told apart by record and sequence, as in the code. `ScanInv` was checked
by TLC on the NTFS part of `volume_scan` before it was proved.

`ListsProofs` has what these proofs know of `Lists`, and two general tools. The library's
induction theorems cannot be cited, so `LeastNumber`, that a set of numbers has a least
one, is derived from a theorem about well-founded relations; induction over depths,
records or the parts of a list is by the least counterexample (`Upward`). And a function
that is defined by recursion over numbers has its equations only if there is one that
does, which `RecursionExists` shows by building it up.

What is model-checked only:

- Liveness (`EveryJobReturns`, `JobsEnd`, `ViewComesToRest`, `ScansEnd`,
  `JobIsFollowed`): the prover has no means for liveness under fairness.
- Of `volume_scan`: `ContentIsTheFiles` compares the output with the file that was deleted,
  so it rests on run lists and a bitmap being decoded to what they encode, an induction over
  digits. `CarvingIsTrue` is about a parser that is written with RECURSIVE operators (the
  validator of pictures), which the prover does not take, and so is `FatScanIsTrue`
  (chains, directories in depth).

## 6. Findings

- `restore_record_limit`. ADR-0027 promises "an explicit reconciliation-needed
  result" for a journal failure after a link. When the failure is the record
  limit, `append` does not poison the journal, the error arm appends
  `itemFailed`, meets the same limit, and `?` returns `JournalRecordLimit`
  (`transaction.rs:541`). The file is visible, unrecorded, and the caller is not
  told to reconcile.
- `coordinator_progress`. When the engine returns in the middle of an item, the
  bytes shown for it were never committed, and `fail_job` (`restore.rs:1429`)
  sets them to 0. The front end refuses a snapshot with fewer bytes than the one
  before (`api/storage.ts:1384`) and loses track of the job, so the user sees a
  lost job instead of a failed one.
- `results_cursor`. Reading the first page again, as `previousPage` does when it
  has left the cache of three, replaces the binding (`results.rs:295`) and
  forgets the cursors of the later pages, although scan, query, sort and
  revision are the same. Going on over the cached pages ends at a stale cursor
  and back on the first page.
- `results_update`. A refused input while a page is loading sets the phase to
  "error" (`resultsWorkspace.ts:599`), so that a selection can be queued behind
  the page; the page's arrival enables the controls before the update has run.
  Paging meanwhile makes the refresh show one page under another's number.
- `fat_retained_chain`. A comment at `fs-fat/src/scan.rs:431` says that a retained
  chain means that the table "still references these clusters for this very file".
  After a proper deletion the chain is cleared, and another file may take the start
  cluster; its chain is then followed and offered as the deleted file's, free in the
  snapshot, although it is a live file's data.

Observations that are no contradictions of a document, or that a property excludes:

- NTFS counts the sequence number of a record up when it is freed, so a freed
  directory that was retained has the number of its successor, and a name in that
  successor is placed in the freed directory (`fs-ntfs/src/scan.rs:1083`).
  `NamespaceIsTrue` excludes these cases by `Mistaken` and holds of all others.
- A run list of the base record that does not decode makes a candidate of size 0
  (`attr.rs:267`); two sound GPT copies that differ refuse the whole image, and one
  volume that cannot be scanned fails the scan of all of them (`cli/src/lib.rs`).
- A scan that changes under an open restore dialog, by a late inventory refresh,
  resets the dialog, and the job that runs is followed by nobody, although
  `docs/ui-data-contract.md` 12.3 keeps the dialog open during a job.
- When the answer of `start_restore` gets lost, the dialog ends in "error" and not in
  "trackingLost", although a job may run.
- `JobIsFollowed` depends on `get_restore_job` being no `async fn`: were it one, a poll of an
  earlier dialog that is slow to answer would swallow the first poll of the next
  job (`restoreWorkflow.ts:243`), and nothing would schedule another.

## 7. Plan

In order of importance; what is built is marked.

1. Built: the restore engine (`RestoreTransaction`, `PublicationPromise`) and the proofs
   of all its safety properties and of both its refinements.
2. Built: `RestoreCoordinator` on `EngineReports` and `SelectionStore`, and the
   proofs of all that its runs check but for `JobsEnd`.
3. Built: `ResultsSession` and `ResultsWorkspace`, and the proofs of all that their
   run checks but for `ViewComesToRest`.
4. Built: `RestoreWorkflow`, and the proofs of all that its run checks but for
   `JobIsFollowed`. Next: the coordinator in the place of its one-step commands, which needs
   a smaller coordinator than the one of item 2.
5. Built: `Devices`, `RawVolume`, `BrokerSession`, `ScanAuthority`, `DestinationRoot`,
   and the proofs of all their safety properties.
6. Built: the readers of bytes, `ImageLayout`, `NtfsScan`, `FatScan`, `NtfsContent`,
   `ContentStream`, `JpegCarver`, and the proofs of `OutputIsAsReported`, of
   `PartitionsAreSound` and of both NTFS properties. Next: attribute lists as a step of their
   own; the proof that a run list decodes to what was encoded.

## 8. Not modelled

- Byte layouts: records, attributes, frames, boot sectors and directory entries are
  values that decode or do not. What could go wrong there is a field at the wrong
  offset, which the unit tests with real bytes reach and a model would only repeat.
- `crates/restore/src/path.rs`: text rules for names, without state.
- The errors of `JobJournal::append` for a payload or a record that is too long or does not
  serialize (`journal.rs:62-109`), which leave the journal usable. The engine's records are
  plain structures of names, hashes, counts, an error message and a path or two of at most
  32,000 UTF-16 units (`path.rs:8`), far from the limit of 1 MiB.
- The recoverability score: a sum of weights, and its wording.
- Errors of the checks that precede a plan that was just made (free space, labels)
  are one way to fail each.
- What a power loss does to a parent directory that was just created: the directory
  above it is never synchronized (`transaction.rs:1524`). The model assumes that
  synchronizing a directory also makes the directory itself reachable, as journaling
  file systems do; without it `ClaimsAreTrue` would not hold below a created parent.
  It is listed as a hazard without a property.
- Pipe security, the launch of the elevated process, shell calls, the picker.
- Views, wording and preferences; the Desktop shell, which registers the commands;
  the arguments and reports of the command line; fixtures and repository scripts.
