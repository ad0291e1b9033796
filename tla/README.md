# TLA+ specification of hplus_analytics

hplus_analytics imports monthly reports of several sales media (CTI workbooks, Town store and
cast workbooks, Heaven CSV files) into PostgreSQL, lets administrators resolve the names in them
to casts, and shows analytics over the stored facts. A polling job finds the reports in Google
Drive and prepares previews; a person confirms them. Paths below are relative to the repository;
`HV:226` means line 226 of `src/lib/imports/heaven/service.ts`, `GD/` stands for
`src/lib/import-automation/google-drive/`, `IMP/` for `src/lib/imports/`, `CAST/` for `src/lib/casts/`.

The project has TLA+ modules for the parts where processes, requests and people meet on shared
rows, TLC configurations that check them on small instances, and proofs, checked by TLAPS, of the
invariants that matter most.

## 1. The system

| Component | State | Operations | Interacts with | What makes it correct |
|---|---|---|---|---|
| Drive file state (`GD/file-state-service.ts`) | `drive_file_states`: status, folder, mtime, digest, retry count, batch links | detection upsert, transition, failure | every other Drive component writes these rows, each by a read and a later write | only edges of the transition table; retries within the cap; no write rests on a stale read |
| Scan and poll (`GD/poll-once.ts`, `GD/one-shot-scan.ts`) | the global and per-file advisory locks | list folders, classify, decide, download | upserts and transitions rows; hands READY files to the dispatcher | every new or changed file is handled; files are not handled twice |
| Dispatcher, auto-execution gate | none | choose executor, allow or not | scan, executors | only mapped routes execute |
| Executors (`GD/*-execute.ts`) | import batches, previews | lock, verify, download, compare, preview, link | row, preview services | one preview per content; nothing imported without a person |
| Post-confirm synchroniser (`GD/post-confirm-sync.ts`) | rows of confirmed batches | read, lock, find, conditional write | called once by each confirm route | REVIEW_REQUIRED becomes IMPORTED for the confirmed batch only |
| Reset command (`GD/reset-state.ts`) | rows | back to DETECTED or READY under the file lock | row | never drops a review, never readies a row without digest |
| Folder mappings (`GD/mapping-service.ts`) | mappings | create, switch on and off | scan, executors | one active mapping per folder |
| Heaven import (`src/lib/imports/heaven`) | batches, preview file, aliases, daily facts | upload, reparse, link, bulk approve, confirm, cancel duplicate | advisory locks by digest, alias, batch; executors upload | a CSV is completed once; a completed batch stays; COMPLETED has every row |
| CTI import (`IMP/cti`) | batches, preview file, resolutions, sales and earnings facts | upload, bulk folder, decide about a name, reparse, confirm | casts, aliases; executors upload | what is stored of a cast is a row linked to the cast; a completed batch is taken back by nothing but a call that is late; an automatic confirmation spares another report of the day |
| Town import (`IMP/town`) | batches, preview file, errors, aliases, metrics | upload, decide, bulk link, reparse, partial and full confirm | casts, aliases | as CTI; nothing of an unconfirmed batch is stored |
| Import storage (`src/lib/imports/storage.ts`) | stored uploads, preview files | write whole by rename, read | imports | a preview is read whole |
| Cast memberships (`CAST/membership-service.ts`) | memberships (store, period, status), last day of the cast, what the media show | create, update, initialise, exit, re-enter, repair | three lock names for one cast | periods written under one lock do not overlap; exits agree on the last day; an exit closes the media |
| Cast merge and rename (`CAST/merge-service.ts`, `name-service.ts`) | casts, redirects, the rows of both casts | preview, merge, rename | locks both casts, SERIALIZABLE | a merged cast points to an unmerged one; no value is lost; what is merged is what was shown |
| Cast maintenance scripts | casts, memberships | bulk start dates, gap repair | none while the site runs | plan equals what is applied |
| Authentication (`src/lib/auth.ts`) | sessions of the framework | sign in, sign out | every route | expired and inactive users refused |
| Analytics (`src/lib/analytics`) | none | aggregate facts | reads everything | formulas |
| Import confirm routes (`app/api/imports/{cti,town,heaven}/[id]/confirm`) | none | confirm, then synchronise | call the importers and the synchroniser | a failed synchronisation leaves the confirmation standing |
| Drive commands (`scripts/drive-*.ts`, `phase-h-drive-*.ts`) | none | execute one file, reset, set a mapping, poll or scan once | call the executors, the reset, the mappings, the poll | they race the server's poll |
| Goals, masters, pages, other API routes and scripts, schema | single rows, rendering | forms, handlers | all | |

### How the parts interact

Cron runs `drive:poll-once` every ten minutes. The poll takes the global lock
`HPLUS_DRIVE_SCAN_LOCK`, lists every active folder and, for every file, upserts the row,
downloads the bytes, stores the digest and makes the row READY. An executor (called by the
dispatcher inside the poll, or by an operator's `drive:execute-*` command) takes the row to
IMPORTING, creates an import batch with a preview, links it and sets REVIEW_REQUIRED. An
administrator resolves names, reparses and confirms the batch through an API route; the route
then calls the synchroniser once, which sets the row IMPORTED. The concurrency boundary is
PostgreSQL's session advisory lock per file. **With `GOOGLE_DRIVE_AUTO_EXECUTION_ENABLED` the
scan does not take it** (`GD/one-shot-scan.ts:162`), because the executor it calls takes it.

### What is hard

- Interleaving: the row's read and write are two statements (`GD/file-state-service.ts:101,134`);
  the scan reads a row before it tries the lock; confirmations read a batch before they wait for
  a lock; a preview file is outside every transaction.
- Crashes between two statements: rows left DOWNLOADING or IMPORTING, a preview that no row
  links, a batch left VALIDATING.
- Calls that are made once and never repeated: the synchroniser's try-lock.
- Ordering: an edit during review, a confirmation of the old content.
- Status checked early, written late: CTI and Town calls read a batch's status, work for seconds
  or minutes, and write the status they computed without another look (`IMP/cti/importer.ts:19`,
  `IMP/town/reparse-service.ts:122`). Their catch writes FAILED over whatever is there.
- Files written inside a database transaction: a Town decision that rolls back leaves previews
  that name a cast for whom no alias was stored (`IMP/town/resolution-service.ts:241`).
- A constraint kept by code alone: nothing in the schema forbids overlapping memberships, and the
  three locks of one cast do not exclude each other.
- A SERIALIZABLE snapshot that is older than the lock its transaction waits for
  (`CAST/merge-service.ts:169`): the check that follows the lock still sees the old rows.
- Boundaries: the retry cap, the row window of a monthly CSV.

PROJECT.json lists each of these hazards at its line, with the properties that cover it or the
reason why none does.

## 2. Modules

| Module | Models |
|---|---|
| `DriveFileState` | the pure part of the rows: statuses, `allowedTransitions`, classification, upsert and failure rules, the download decision |
| `DriveFileLifecycle` | abstract specification: a row moves along the table's edges or a detection edge, and becomes IMPORTED only from REVIEW_REQUIRED with a batch that a person accepted |
| `DrivePipeline` | the poll, the executors, the synchroniser, the reset, the mappings, Drive itself and the people; composes the above and states that it implements `DriveFileLifecycle` |
| `HeavenImport` | the Heaven import with its locks, preview file, aliases and facts, every statement a step; states that it implements `HeavenLedger` |
| `HeavenLedger` | abstract specification: a CSV is counted by one batch, a batch is imported in one step, a reopened batch leaves its rows |
| `CastMemberships` | the memberships of one cast, with what the media show of the cast, under the three locks |
| `CastMerge` | the merge of two casts by SERIALIZABLE transactions, beside renames and imports; states that it implements `CastLedger` |
| `CastLedger` | abstract specification: a merge is one step on the redirects and rows there are when it commits |
| `CtiImport` | the CTI import, every piece of work between two awaits a step; states that it implements `CtiLedger` |
| `CtiLedger` | abstract specification: a batch is imported in one step by a call that saw it open; every other status a call writes leaves the batch as completed as the call saw it |
| `TownImport` | the Town import, with the previews that are written inside a transaction |
| `MCDrivePipeline`, `MCHeavenImport`, `MCCastMemberships`, `MCCastMerge`, `MCCtiImport`, `MCTownImport` | constant definitions and symmetry for TLC |
| `DrivePipelineProofs` | type correctness of `DrivePipeline` |
| `DriveConfirmProofs` | what needs no file lock around the scan: `ImportedWasConfirmed`, who holds a file lock, one Heaven batch per content |
| `DriveLockProofs` | what the file lock guarantees: fresh writes, the implementation of `DriveFileLifecycle`, retry cap, digest of READY rows, reviews kept until confirmed, one preview per content |
| `HeavenImportProofs` | types, one completion per CSV, completed batches stay uncancelled and are whole, the implementation of `HeavenLedger` |
| `CastMembershipProofs` | types, periods stay apart, one last day, media close with the exit |
| `CastMergeProofs` | types, direct redirects, no value lost, merged as previewed, no deadlock, the implementation of `CastLedger` |
| `CtiImportProofs` | types, linked rows, completed batches, what the bulk confirmation spares, the implementation of `CtiLedger` |
| `TownImportProofs` | types, confirmed and linked rows, completed batches |

PROJECT.json `map` names, for every definition, the lines it models.

### DriveFileState, DrivePipeline

| Code | Model |
|---|---|
| columns of `drive_file_states` | `status`, `meta` (folder, name, mtime, sha), `retry` (count, due), `link` (last, ok) |
| a file in Drive | `drive[f]`: folder or deleted, name, mtime, content |
| `drive_folder_mappings` | `mapped`; a folder has one mapping, of family CTI, TOWN or HEAVEN |
| `import_batches` | `batches[b]`: the file, mtime and digest in its metadata, family, status |
| advisory locks | `scanLock`, `fileLock`; holders are processes and synchronisations |
| a process | `pc`, and its locals `file`, `saw` (status last read), `to` (status to write), `step`, `loc` |
| `runPollOnce`, `runManualOneShotScan` | `PollStart`, `ListFolder`, `PollEnd`, `PickFile`, `EnterFile`, `UpsertRead`, `UpsertWrite`, `Fetch`, `Dispatch` |
| `transitionDriveFileState` | `TransitionRead`, then `Store` |
| `markDriveFileFailure` | `FailCount` (increment), then a transition |
| executors | `TryLock`, `ExecRead`, `ExecList`, `ExecFetch`, `ExecDuplicate`, `ExecFind` (Heaven: the batch to hand back), `ExecPreview`, transitions, `Leave` (the finally) |
| `reset-state` | `ResetStart`, `ResetRead`, a transition |
| confirm routes | `Confirm(b)`, which starts a synchronisation: `SyncRead`, `SyncLock`, `SyncFind`, `SyncWrite` |
| Heaven reparse of a completed batch | `Reopen` |
| users of Drive, time, death of a process | `DriveEdit`, `DriveMove`, `DriveRename`, `SetMapping`, `RetryDue`, `Crash`, `SyncCrash` |

Abstractions. A batch's `family` stands for data type and store. "PREVIEW" stands for every
status before completion, including the FAILED batch of a fatal CTI or Town cast preview, which
their executors link all the same (`GD/cti-execute.ts:77`, `GD/town-cast-execute.ts:72`); the
Town store and Heaven executors throw instead. `retry.count` saturates at `MaxRetry + 1`. The
confirmation is one step here. `createHeavenPreview` looks for a batch to hand back in one step and makes
its own in a later one, so that it is seen what another executor does in between. One synchronisation per batch runs at a time. Overlapping polls are excluded by
the global lock; the development-only scan command is not modelled. A failing listing ends the
poll: for safety that is `Crash`, for liveness the listing is assumed to succeed. Trashed files
and Workspace documents are never listed: a file that is gone from every folder. The loss of a
lock connection while its process lives is not modelled. The dispatcher's branch for executors
that do not own the row is never configured by a caller and is left out.

### HeavenImport

| Code | Model |
|---|---|
| `import_batches` of Heaven | `batch[b]`: digest and status; the order of creation is the order of the numbers |
| `<batch>.preview.json` | `preview[b]`: the cast of each name, or None |
| `cast_aliases` with `mediaType=HEAVEN` | `alias[n]` |
| `heaven_cast_daily`, `heaven_shop_daily` | `fact[<<cast, day>>]`: the batch that wrote the row |
| `heaven-sha:`, `heaven-alias:`, `heaven-bulk-alias:` | `shaLock`, `aliasLock`, `bulkLock` |
| `createHeavenPreview` | `Upload`, `FindActive`, `CreateBatch`, `ResolveRows`, `WritePreview`, `Settle`, `CreateFail` |
| `reparseHeavenBatch` | `Reparse`, `ReparseRead`, `ResolveRows`, `WritePreview`, `Settle` |
| `createHeavenAliasAndResolve` | `Link`, `LinkLock`, `LinkCheck`, `LinkWrite`, then the reparse |
| `approveHeavenBulkAliases` | `Approve`, `BulkRead`, `BulkLock`, `BulkCheck`, `BulkWrite`, then the reparse |
| `confirmHeavenImport` | `Confirm`, `ConfirmRead`, `ShaLock`, `ConfirmFind`, then `CancelWrite` or `Complete` |
| `cancelDuplicateHeavenBatch` | `Cancel`, `ShaLock`, `CancelFind`, `CancelWrite` |
| a rollback, or the death of a process | `Abort`: nothing uncommitted is seen, the locks of the transaction are free |

Abstractions. One store (the code allows one). An ambiguous name, a merged cast and a cast out of
its period count as unresolved. A name has one alias, valid for the whole month; the match by
the cast's own name without an alias is left out. All metrics of a cast and day are one fact, and
its values (`rawValue`, `deltaValue`) are left out. A link that creates a cast is a link to any
cast. Town aliases do not change. `BulkCheck` compares the number of candidates only, as every
name has the same number of rows. The lock `heaven-reparse` (HV:274) is taken in a transaction of its own
that ends at once: it excludes nothing and is no variable. A shop CSV behaves as a content
whose names are all linked. Import errors and metadata events are left out.

### CastMemberships

| Code | Model |
|---|---|
| `cast_store_memberships` of one cast | `rows[id]`: store, period, status, and by which function the row was written last (no column: for the properties) |
| `casts.ended_on` and the cast's status | `ended`: a date exactly when the cast is INACTIVE |
| media listings, cast aliases | `listing[store]`, `alias[<<store, first day>>]`: open, closed, ignored |
| `cast-membership:<cast>:<store>`, `cast-exit:<cast>`, `cast-reentry:<cast>`, `cast-media-repair:<cast>` | `scopeLock`, `exitLock`, `reentryLock`, `repairLock` |
| `createMembership`, `updateMembership`, closing, leave and its end | `Create` or `Update`, then `ScopeLock`, `Check`, `Write` |
| `initializeCurrentMemberships` | `Initialize`, then `InitLock` and `InitCheck` for every store, `InitWrite` |
| `exitCast` | `Exit`, `ExitLock`, `ExitCast`, `ExitRows`, `ExitWrite` |
| `reenterCast` | `Reenter`, `ReentryLock`, `ReenterCast`, `ReenterRows`, `ReenterMedia`, `ReenterWrite` |
| `repairLegacyMediaConflicts` | `Repair`, `RepairLock`, `RepairWrite` |
| a rollback, or the death of a process | `Abort` |

Abstractions. The transactions are READ COMMITTED: every read is a step of its own, and what a
transaction writes appears with its last step. One listing and the aliases of one name stand for
all of a store. Left out: `setCastStatusAction` of `masters.ts:91`, which changes `ended_on` too but
is used by no page; merges, imports, the alias pages and maintenance scripts, which touch aliases of a
cast.

### CastMerge

| Code | Model |
|---|---|
| `casts.merged_into_cast_id` | `into[cast]` |
| the rows a cast owns, by their unique key without the cast | `fact[<<cast, key>>]`: the value, or None; keys the merge moves and keys it leaves |
| `cast-merge:<cast>`, taken in the order of the ids | `castLock` |
| the snapshot of a SERIALIZABLE transaction; the fingerprint of a preview | `since[p]`: what others have written since request `p` looked |
| `previewCastMerge` | `Preview` |
| `executeCastMerge` | `Begin` (its first statement takes the snapshot), `Lock1`, `Lock2`, `Merge` |
| `renameCast` | `Rename`, `RenameWrite` |
| an import: a cast resolved in a preview, stored later | `Resolve`, `Confirm` |
| a serialization failure, a violated key, a deadlock, a person who gives up | `Abort` |

Abstractions. A fingerprint is equal exactly when nothing in its scope was written since; a write
that restores an old value counts as a change, which only refuses more. The reason why
PostgreSQL lets one of two concurrent transactions fail is modelled by its sufficient half, first
updater wins; the read-write conflicts it also detects would refuse more. `merged-state-repair.ts`
is left out.

### CtiImport

| Code | Model |
|---|---|
| `import_batches` of CTI | `batch[b]`: content, status, duplicate and bulk metadata; `known`, in no column, is for `BulkSparesKnown` |
| `<batch>.preview.json` | `preview[b]`: for every name a cast, Skipped, or None |
| `cast_aliases` | `alias`: set of name, first day, cast |
| `cti_cast_daily` and the other facts | `fact[<<day, cast>>]`: the batch and row it was stored from |
| the status a call has read and still goes by | `loc[p].seen`: OPEN or COMPLETED (`Saw`), which is all that a later step looks at |
| `createCtiPreview` | `Upload` or `Search`, then `Create`, `Analyze`, `PutStatus`, or `CreateFails` (the catch) |
| `processCtiBulkFile` | `Bulk`, then `BulkNew` and the preview, `BulkOld`, `BulkCheck`, `BulkConfirm` |
| `confirmCtiImport` | `Confirm`, `ConfirmPreview`, `ConfirmWrite`, or `ConfirmFails` (the catch) |
| `resolveCtiPreviewRow` | `Decide`, `ResolvePreview`, `Link`, `ResolvePut`, `ResolveStatus` |
| `reparseCtiBatch` | `Reparse`, `ReparseAnalyze`, `ReparsePut`, `ReparseStatus` |
| an await that fails outside a catch, or the death of a process | `Abort` |

Abstractions. One store; the casts are employed on every day and an alias does not end; of a row
only its cast is kept. COMPLETED stands for COMPLETED_WITH_WARNINGS, which no condition of this
import tells from it. Left out: the decision NEW (a cast is created, then it is a decision for
that cast), the alias pages of the masters, import errors, metadata differences, fatal files, monthly sheets.

### TownImport

| Code | Model |
|---|---|
| `import_batches` of Town | `batch[b]`: kind, status, whether an event tells of a confirmation that held unknown ids |
| `<batch>.preview.json` | `preview[b]` |
| open errors UNMATCHED_CAST | `open[b]` |
| `cast_aliases` of the store | `alias[name]` |
| `town_cast_daily`, `town_url_daily` | `castFact[cast]`, `urlFact[name]` |
| `createTownPreview` | `Upload`, `Analyze`, or `CreateFails` (the catch) |
| `confirmTownImport`, in full or by `ID_NO_SOURCE_URL_HOLD_PARTIAL` | `Confirm`, `ConfirmPreview`, `ConfirmWrite`, or `ConfirmFails` (the catch) |
| `resolveTownPreviewRow` | `Decide`, then `Skip`, or `Candidates` and `Link`; `LinkTorn` is its rollback after files were written |
| `reparseTownBatch` | `Reparse`, `ReparsePut`, `ReparseWrite` |
| an await that fails outside a catch, or the death of a process | `Abort`, where it leaves a trace |

`confirmed` and `aliased` are history variables for the properties. Abstractions. One store and
one day; the database part of a transaction is one step; reads that nothing can tell apart from a
later one are joined with it. Left out: the bulk folder's validation and safe confirmation (the
code is CTI's again), the bulk links, the decision NEW, skipping in bulk, media listings and with
them what sets the `CAST_ONLY` confirmation apart, store and landing page reports, ambiguous
names, rows in error, corrections, and the scripts that recover previews.

## 3. What the runs check

Passing runs:

| Run | Instance | Checks |
|---|---|---|
| `DriveLockedCrash` | Town, no auto execution, one file that is edited, renamed and moved, one poller, one command, crashes | `RetryableWithinCap`, `NoStaleWrite`, `LifecycleSpec` |
| `DriveLockedMoves` | a CTI and a Town folder, the file moves between them; poller, command, reset operator | `TypeOK`, `OnePreviewPerContent`, `ReadyHasDigest`, `ReviewNotAbandoned` |
| `DriveShared` | two Heaven files with equal bytes share a batch; mappings are switched | `NoStaleWrite`, `LifecycleSpec` |
| `DriveAuto` | Heaven, auto execution, edit, reparse of a completed batch, crash | `ImportedWasConfirmed`, `OnePreviewPerContent` |
| `DriveAutoLive` | CTI, auto execution, edit, fairness | `DetectedIsHandled`, `ChangeIsDetected`, `LockIsReleased` |
| `HeavenImport` | one CSV, a name, two casts, two batches, two concurrent calls, any may die | `TypeOK`, `OneCompletedPerContent`, `CompletedHasNoGap`, `CompletedNotCancelled`, `LedgerSpec` |
| `CastMemberships` | one store, two days, two rows, two concurrent calls, every form | `TypeOK`, `OverlapOnlyAcrossLocks`, `OneLeaveDate`, `NothingOpenBeforeExit` |
| `CastMerge` | three casts, one key, two values, two concurrent calls | `TypeOK`, `RedirectsAreDirect`, `NoWaitingCircle`, `MergeKeepsValues`, `MergedAsPreviewed`, `LedgerSpec` |
| `CtiImport` | two reports of one day with one row, one cast, two batches, two concurrent calls | `TypeOK`, `StoredIsLinked`, `UncompletedOnlyByStale`, `BulkSparesKnown`, `LedgerSpec` |
| `TownImport` | a report of casts and one of pages, one known name and one unknown id, two batches, two concurrent calls | `TypeOK`, `StoredWasConfirmed`, `StoredIsLinked`, `UncompletedOnlyByStale` |

Several of these properties say exactly how far the code's guarantee goes where a simpler one
would be false. `OverlapOnlyAcrossLocks`: a cast's memberships do overlap when a create
under `cast-membership` races a re-entry under `cast-reentry`; periods written under one lock never do.
`UncompletedOnlyByStale`: `docs/SPECIFICATION.md:245` keeps a completed batch completed, and only
a call that read the status before the confirmation committed (for Town also a reparse, see
below) takes it back. `MergeKeepsValues` admits a duplicate whose target an import corrected
between the snapshot and the write, and rows the merge did not see. For the same reason
`CastLedger!Merge` leaves open which rows go. `HeavenLedger!Import` admits a batch that is counted
already: of two confirmations that read the batch before the lock the second stores its rows
again. It has `Reopen` for every counted batch, since a reparse that read the status before the
confirmation takes even a COMPLETED batch back. `CtiLedger` cannot promise that a batch is imported
once or stays completed, as no lock of the code does: it says what each call may do to a batch, given what
it saw (`Look`). Two calls that both saw a batch open may both import it, and one that saw it open and fails
or only decides about a name takes the import of the other back; a call that saw it completed never
imports it. `NoWaitingCircle` does not say that no
one waits: it says that along a chain of merges that wait the ids they want grow, which no circle can do.

Runs that must find a violation, each of sentences in the documents:

| Run | Property | What happens |
|---|---|---|
| `CastSecondExit` | `OpenCastCanExit` | a cast leaves, comes back and cannot leave again on a later day: the exit compares its day with the LEFT rows of the first stay. `docs/PHASE_J0_CAST_MEMBERSHIP_UI.md:64,66` make the exit one day for all open memberships |
| `TownReopened` | `ReparseKeepsCompleted` | the reparse of a batch completed with warnings makes it a preview again. `docs/API.md:99` says completed batches are refused, `docs/SPECIFICATION.md:164` that such a batch never goes back to the preview state |

### Other behaviours seen while modelling

Some properties stand in the modules, each with the sentence of the documents it comes from, and
no configuration checks them: the code does not keep them. Name one in a configuration of the
module to see TLC's counterexample.

| Property | What happens |
|---|---|
| `DrivePipeline!LifecycleSpec` with auto execution (`docs/PHASE_H_H5_DRIVE_FILE_STATE.md:56`) | two unlocked writers take a row along an edge the table forbids |
| `DrivePipeline!RetryWaitsUntilDue` (`docs/PHASE_I_I9_PRODUCTION_ROLLOUT.md:83`) | a poll retries a failed file before `nextRetryAt` |
| `DrivePipeline!ImportedIsLatest` (`docs/PHASE_H_DRIVE_STATE_SPECIFICATION.md:111`) | an edit during review, then the confirmation of the old content: IMPORTED at the new time |
| `DrivePipeline!ConfirmedIsImported` (`docs/PHASE_I_I4_CTI_POST_CONFIRM_SYNC.md:50`) | the synchronisation finds the lock busy and is not repeated |
| `DrivePipeline!WorkIsResumed` (`docs/PHASE_I_I9_PRODUCTION_ROLLOUT.md:78,80`) | a row a dead process left DOWNLOADING or IMPORTING stays there; with auto execution the race alone leaves rows there, without a crash |
| `HeavenImport!NoDayIsLost` (`docs/HEAVEN_IMPORT_DESIGN.md:10`) | `rows.slice(1, 31)` of `IMP/heaven/parser.ts:122` drops day 31; `MCHeavenImport!Month` has the days to see it |
| `CastMerge!MergedOwnsNothing` (`docs/SPECIFICATION.md:83`) | a merge leaves Heaven rows, memberships and listing histories with the source, and rows an import stores for it later |

These are results of TLC runs of variants of the configurations; the documents say nothing
definite of them, or less than of the ones kept.

- Drive: in auto mode a stale upsert can replace the batch link of a row under review, or undo the
  FAILED_FINAL of a file whose retries are spent. A crash between the creation of a CTI or Town
  preview and its link hides the preview from the identity check: a second preview of the same
  content follows. (Heaven reuses the batch.) The reparse of a COMPLETED_WITH_WARNINGS batch leaves
  rows whose last success is not completed. A READY row whose executor found the file lock busy
  is not taken up by later polls.
- Heaven: a reparse that started earlier takes a COMPLETED batch back to PREVIEW_READY (the
  reparse at the end of a link racing a confirmation); a link can re-point an alias that a bulk
  approval stored after its check, since the two take different locks; a batch that was
  reopened can be cancelled and still own facts; a PREVIEW_READY batch can have a preview with
  unresolved names; a batch left VALIDATING by a crash is handed to every later upload and no operation
  accepts it.
- CTI and Town: of two uploads of one content before either is confirmed both are confirmed
  without `forceDuplicate`, since the duplicate is looked for at the upload. Two administrators
  who decide about names of one CTI preview lose one decision, whose alias stays.
- Town: a decision that rolls back leaves a preview that names a cast, although
  `docs/SPECIFICATION.md:217` has it in one transaction with the alias; a later confirmation stores
  the row. The second of two confirmations that hold unknown ids fails under its lock, and its
  catch writes FAILED over the batch the first one completed.
- Memberships: `updateMembership` writes back the row it read before its lock, and reopens a period
  that an exit closed meanwhile.

### Bounds, and why they are enough

*Drive.* One file suffices for every race on a row, as rows do not refer to each other except through a
shared batch, which `DriveShared` covers with two files. One poller is all the global lock
admits; one command, one operator and the synchronisations give up to four writers of a row.
`MaxEdits = 1` gives an old and a new content, `MaxRetry = 1` (4 in the code) reaches the cap with
two failures. Two batches are enough for a duplicate.

*Imports.* Two requests give every pair of operations, two batches two uploads of a file or two
reports that replace each other. In `HeavenImport` two casts give the re-pointing of an alias, and
one day per month leaves out nothing but the row window; its two batches are uploads of one CSV, as the locks
and duplicates are about one content, and a second CSV would only replace facts, which the proofs have. `CtiImport` has one row per report that no cast
has the name of; a decision and its alias, a skipped row, and two reports of the day come up;
rows in error and the return to pending do not, and rest on the proofs, which have them. `TownImport`
has one name that resolves by itself and one unknown id, which the pages show too: a partial
confirmation, the decision about the id that follows it, and a decision that reaches two batches.

*Casts.* Stores of a cast meet only in the exit, the re-entry and the initialisation, so
`CastMemberships` has one store, with two rows that can overlap and days before and after each other;
`CastSecondExit` has two stores and three days for two stays one after the other, with one call at a time. An
instance with several stores and calls is too large for TLC; the proofs hold for any number.
`CastMerge` has three casts for a chain of merges, one key and two values for a collision.

Symmetry is used for batches and contents only where nothing orders them, for requests everywhere,
for ids of rows and values; no liveness run uses symmetry. Deadlock is checked in every run but
the two of `TownImport`: there the system may stop, with every batch completed and nothing left to decide.

### Fairness

`FairSpec`: cron starts polls for ever and a started process keeps running (weak fairness of each
process and of each synchronisation), and time passes (`RetryDue`). Nothing makes a person act:
confirmations, edits, commands and resets are never forced, and a download may fail every time.
That is what the deployment gives: a cron entry, processes with no cancellation, a clock. The other
modules have no liveness: each of their steps is a person's call, which may fail at every await,
and nothing repeats it.

## 4. What is proved

All theorems hold for any number of files, folders, batches, contents, casts, stores, days,
names, processes and requests, under the named assumptions of the modules (`MaxRetryAssumption`,
`PipelineAssumption`, `HeavenAssumption`, `MembershipAssumption`, `MergeAssumption`,
`CtiAssumption`, `TownAssumption`, `NoneIsNoBatch`: constants have their types, identifiers are distinct,
None is no row).

| Module | Theorem | States |
|---|---|---|
| `DrivePipelineProofs` | `TypesHold` | `Spec => []TypeOK` |
| `DriveConfirmProofs` | `ImportedConfirmed` | `Spec => []ImportedWasConfirmed`, with and without auto execution |
| `DriveConfirmProofs` | `LocksHaveHolders` | `Spec => []LocksAreHeld`: a file lock belongs to a process between its lock and its finally, or to a synchronisation of a batch of the file |
| `DriveConfirmProofs` | `HeavenContentsAreUnique` | `Spec => []HeavenUnique`: a content of a file has one Heaven batch, beside whatever CTI and Town do |
| `DriveConfirmProofs` | `HeavenPreviewsAreUnique` | `(every folder is Heaven's) => (Spec => []OnePreviewPerContent)`, with and without auto execution, crashes included |
| `DriveLockProofs` | `LockedWritesAreFresh` | `~AutoExecution => (Spec => []NoStaleWrite)` |
| `DriveLockProofs` | `LockedPipelineImplementsLifecycle` | `~AutoExecution => (Spec => LifecycleSpec)` |
| `DriveLockProofs` | `LockedRetriesAreCapped`, `LockedReadyHasDigest` | the same for `RetryableWithinCap`, `ReadyHasDigest` |
| `DriveLockProofs` | `LockedReviewsAreKept` | `~AutoExecution => (Spec => ReviewNotAbandoned)`, crashes included |
| `DriveLockProofs` | `LockedPreviewsAreUnique` | `~AutoExecution /\ "crash" \notin Env => (Spec => []OnePreviewPerContent)` |
| `HeavenImportProofs` | `HeavenTypeCorrect` | `Spec => []TypeOK` |
| `HeavenImportProofs` | `FileIsCompletedOnce` | `Spec => []OneCompletedPerContent` |
| `HeavenImportProofs` | `CompletedStaysUncancelled` | `Spec => CompletedNotCancelled` |
| `HeavenImportProofs` | `CompletedIsWhole` | `Spec => []CompletedHasNoGap` |
| `HeavenImportProofs` | `HeavenIsLedger` | `Spec => LedgerSpec` |
| `CastMembershipProofs` | `MembershipTypeCorrect`, `PeriodsStayApart`, `OneDayOfLeaving`, `MediaCloseWithExit` | `TypeOK`, `OverlapOnlyAcrossLocks`, `OneLeaveDate`, `NothingOpenBeforeExit` |
| `CastMergeProofs` | `MergeTypeCorrect`, `RedirectsStayDirect`, `MergeLosesNothing`, `MergeIsAsPreviewed` | `TypeOK`, `RedirectsAreDirect`, `MergeKeepsValues`, `MergedAsPreviewed` |
| `CastMergeProofs` | `MergesNeverDeadlock` | `Spec => []NoWaitingCircle` |
| `CastMergeProofs` | `MergeIsAtomic` | `Spec => LedgerSpec` |
| `CtiImportProofs` | `CtiTypeCorrect`, `CtiStoresLinkedRows`, `CtiUncompletesOnlyStale`, `CtiBulkSpares` | `TypeOK`, `StoredIsLinked`, `UncompletedOnlyByStale`, `BulkSparesKnown` |
| `CtiImportProofs` | `CtiIsLedger` | `Spec => LedgerSpec` |
| `TownImportProofs` | `TownTypeCorrect`, `TownStoresConfirmed`, `TownStoresLinked`, `TownUncompletesOnlyStale` | `TypeOK`, `StoredWasConfirmed`, `StoredIsLinked`, `UncompletedOnlyByStale` |

The arguments:

- *Types.* `TypeInv` is `TypeOK` and `Shape`: what a process's label implies of its locals (it
  has a file, a batch, a snapshot), without which `TypeOK` is not inductive.
- *Confirmed.* `ConfirmInv` adds to `ImportedWasConfirmed` that a detection carries IMPORTED only
  to a row that has its success and no transition carries it (`Pending`), and that a
  synchronisation in progress is one of an accepted batch (`Requests`). No lock is needed: the
  synchroniser alone makes a row IMPORTED.
- *Holders.* `HolderInv` says of every process outside the stretch from lock to `Leave` that it has
  no file lock, of one inside it that it has at most the lock of its file, and surely has it from the read of an
  executor to the store of IMPORTING (`HolderOf`), and of a synchronisation that what it holds is the lock of
  the file of its batch (`SyncHolderOf`). No mode and no crash disturbs it: PostgreSQL frees the lock
  of a session that ends.
- *Heaven files.* `HeavenInv` adds to `HeavenUnique` that what an executor did not find is still not
  there when it makes its own batch (`FoundNone`): whoever made one for the same file would hold the file's
  lock (`HolderInv`). The row, which the unlocked scan of the auto mode can spoil, has no part in it,
  nor has the link, which a crash can prevent; hence the theorem for every mode, where CTI and
  Town files need the lock around the scan and no crash (*Previews*). Where every folder is Heaven's,
  `FamilyInv` makes every batch a Heaven batch, which is the instance of the run `DriveAuto`.
- *Locks.* `LockInv` says per process that it holds its file's lock at every label between
  lock and `Leave` (`LockOf`), that what it has read of the status is still there
  (`FreshOf`), and why it is about to write (`ReasonOf`). Only the synchroniser of a shared
  Heaven batch writes a row under another file's lock, and only from REVIEW_REQUIRED to IMPORTED:
  that is the exception in `NoStaleWrite`. A fresh read makes every asserted transition an edge
  of the table, hence the refinement.
- *Rows.* `RowInv` adds what a locked process carries to the row (count and digest, `CarriesOf`).
- *Reviews.* `ReviewInv`: a row whose batch nobody has confirmed is under review or unmapped
  (`Settled`), and an executor that has begun and not yet linked works on an IMPORTING row
  (`BegunOf`), so the row it links has no such batch.
- *Previews.* `TimeInv`: only one poll runs at a time, so a listing is never older than
  the row it is compared with, and times only move forward. `PreviewInv`: a batch an executor made anew for
  a CTI or Town file has left its trace (`Traced`): the row has that time or a later one, it is linked or
  its executor is about to link it, and it rests or its time has moved on; so the identity check of the next
  executor finds it. A Heaven batch is found by its digest. The theorem excludes crashes because one
  between the preview and its link refutes the property (see "Other behaviours").
- *Heaven.* Every step of a request `p` is `Sound(p)`: types are kept, a batch that exists stays
  and keeps its digest, other requests and their locks are untouched. `OnceInv` adds to
  `OneCompletedPerContent` that a request between lock and write holds the lock of its batch's
  digest (`HoldsOf`), and that the batch a request is about to complete has no completed duplicate,
  and the one it is about to cancel is not completed (`DecidedOf`): the status it read before the lock may be
  stale, but the completed duplicate it found under the lock shows that its own batch is not. For `CompletedHasNoGap` it is enough that
  facts are replaced and never removed, and that COMPLETED is written only with the rows its status
  was computed from (`Filled`).
- *Heaven ledger.* The mapping reads `content`, `counted` and `whole` off the batches and leaves out
  requests, previews and locks. A step that changes the mapped state creates a batch, rewrites a
  status, or is `Complete`. A rewritten status is `Reopen`, since no rewrite makes a batch complete, or
  stutters; `Complete` is `Import`, with the preview the request read as the names that were
  resolved; that no other batch of the content is counted is `DecidedOf`, and that COMPLETED is written exactly
  when all names are resolved is `CompletionStatus` of the rows that are stored.
- *Memberships.* `Inv` adds to the types and properties what each call has seen and which lock
  keeps it true until the write (`KnowsOf`): no row written under the call's own lock
  overlaps the one it is about to write, no LEFT row of an exit has another day. `Noticed(p)`
  is what a step of one call leaves to every other, so that the calls are looked at one by one.
- *Merge.* Whatever is not in `since[p]` is still as request `p` saw it (`ShownOf`), and a request
  that merges holds both locks (`HoldsOf`). With "first updater wins" this is why the checks, made
  on a snapshot older than the locks, still hold of what is written: the source,
  the target and the casts merged into the source are rows the merge writes. The ledger's guards are what `MergeFinds`
  concludes from this, so that `Merge` is one step of `CastLedger` on the current rows; previews, locks
  and snapshots stutter.
- *Deadlock.* `NoLockLeft`: a request has a lock only at `lock2`, the lower one of its two, or when it
  has both and waits for no one. Whoever waits for a request that waits therefore wants its lower lock,
  while that one wants its higher one.
- *CTI.* The import has no lock, so the invariant rests on what only grows: batches keep their
  content, a preview once written stays one, aliases stay. `CallOK(p)` says of every name a call has in
  hand for a cast that it is linked to that cast already, `BatchOK(b)` the same of the previews, and
  `StoredOK(k)` of the facts.
- *CTI ledger.* The mapping keeps files and completion of the batches, aliases, facts, and of a call the
  batch whose status it has read (`on`) and whether that was a completion (`done`). What makes it an
  implementation is `SeenOf` (a call confirms or decides only after it saw the batch open, and a status has been
  read exactly between the first read and the last write), `OwnerOf` (the statuses of a batch's
  creator complete and reopen nothing) and `CallOK` (every row stored is of a name linked to its cast, and
  one cast per row). `ConfirmWrite` is `Import`, the three other last writes are `Settle`, the rest `Look`,
  `End` without a write, `Link`, `Create`, or stutters.
- *Town.* The same, with confirmations and the histories in place of the aliases, since a decision
  may re-point an alias or roll back: once confirmed, always confirmed; once linked, always linked.
  `SeenOf(p)` says that a completed status, or an event of held ids, that a call has in hand tells of a
  confirmation, however stale it is; `StepOf(p)` that a confirmation read an editable status. With the
  conjunct of `TypeOK` about previews this needs `OwnerOf(p)`: the call that creates a batch is alone
  with it until it has written the preview. Every writing step that ends its call goes through one lemma, `EndKeeps`.

Every invariant and action property of a passing run is stated by a theorem. Some theorems have a hypothesis, and
what a run checks beyond it is model-checked only:

- `OnePreviewPerContent` of CTI and Town files is proved with auto execution off and without crashes (it is
  false otherwise); of Heaven files without either.
- the lock's theorems need auto execution off, as in the runs that check those properties.
- liveness (`DetectedIsHandled`, `ChangeIsDetected`, `LockIsReleased`) is out of the prover's reach: it needs
  ENABLED. `LocksHaveHolders` is the safety half of `LockIsReleased`: what keeps a lock taken is a process
  or synchronisation on its way to the step that frees it.

`FiniteSetsExt!Max` appears in `HeavenImport` for the newest active batch; the proofs only need that the batch exists.

## 5. What is left

Done: the Drive pipeline, the Heaven, CTI and Town imports, memberships, merge and rename; abstract
ledgers of the Heaven and CTI imports and of the merge.

Left, in this order:

1. An abstract ledger for the Town import. It differs from `CtiLedger` in that a decision may change the
   previews, statuses and facts of several batches, and that a decision about a completed batch still
   stores a row of it.
2. Town's bulk links, which put back on failure the previews they read
   (`IMP/town/bulk-link-service.ts:536`).
3. Pure algorithms against reference definitions: Heaven deltas, retry backoff, target dates.
4. Authentication sessions.

Not modelled: analytics (formulas over tables, no state of its own), pages and form handlers of
goals and masters (single-row writes), the Drive client's I/O, one-off maintenance scripts, backup and
deployment. Most of the lines under `src/` are of this kind or generated: the Prisma client in
`src/generated/prisma` alone is about three quarters of them and has no behaviour of its own, so the share of lines
that `map` names stays small.
