---------------------------- MODULE DrivePipeline ----------------------------
(***************************************************************************)
(* The Google Drive import pipeline: the polling scan (poll-once.ts,       *)
(* one-shot-scan.ts), the preview executors it or an operator's command    *)
(* starts (cti-, town-*-, heaven-*-execute.ts), the synchroniser that runs *)
(* after a person confirms a batch (post-confirm-sync.ts), the operator's  *)
(* reset (reset-state.ts), and the rows of drive_file_states they share.   *)
(*                                                                         *)
(* A step is one database statement, one lock call or one Drive call.      *)
(* transitionDriveFileState, markDriveFileFailure and                      *)
(* upsertDetectedDriveFile read a row and later write it without a         *)
(* transaction: they take a step for each, and what was read may be stale  *)
(* when it is written.  A definition commented "Slip" is the one below it  *)
(* with a plausible bug, for the mutation runs; no action uses it.         *)
(***************************************************************************)
EXTENDS DriveFileState

CONSTANTS
  Files,        \* driveFileIds
  Folders,      \* mapped Drive folders; a DriveFolderMapping is its folder
  Family,       \* [Folders -> "CTI", "TOWN" or "HEAVEN"]: importDataType, store
  Names,        \* file names
  Contents,     \* file contents, and their SHA-256 digests
  Dated,        \* contents whose target date auto-target-date.ts resolves
  BatchIds,     \* import batches; their number bounds the previews created
  Pollers, Clis, Operators,   \* drive:poll-once, drive:execute-*, drive:reset-state
  AutoExecution,  \* GOOGLE_DRIVE_AUTO_EXECUTION_ENABLED === "true"
  AutoFolders,  \* folders on GOOGLE_DRIVE_AUTO_EXECUTION_ROUTES
  MaxEdits,     \* bound on the edits made to one Drive file
  Env,          \* the environment's moves: see DriveEdit ... Crash
  None

ASSUME PipelineAssumption ==
  /\ AutoExecution \in BOOLEAN
  /\ MaxEdits \in Nat
  /\ Family \in [Folders -> {"CTI", "TOWN", "HEAVEN"}]
  /\ AutoFolders \subseteq Folders /\ Dated \subseteq Contents
  /\ Pollers \cap Clis = {} /\ Pollers \cap Operators = {} /\ Clis \cap Operators = {}
  /\ (Pollers \cup Clis \cup Operators) \cap BatchIds = {}
  /\ None \notin Files \cup Folders \cup Names \cup Contents \cup BatchIds
  /\ None \notin Pollers \cup Clis \cup Operators \cup Statuses \cup {Absent}

Workers == Pollers \cup Clis \cup Operators

VARIABLES
  drive,     \* [Files -> what Drive holds]: folder (None: deleted), name, mtime, content
  mapped,    \* [Folders -> mapping.isActive && !mapping.isFuture]
  status,    \* [Files -> status column, or Absent: no row]
  meta,      \* [Files -> folder, name, mtime, sha columns of the row]
  retry,     \* [Files -> retryCount, and due: nextRetryAt is null or past]
  link,      \* [Files -> last: lastImportBatchId, ok: lastSuccessfulImportBatchId]
  batches,   \* [BatchIds -> the batch, or None: not created]
  accepted,  \* the batches some person has confirmed (history)
  scanLock,  \* holder of HPLUS_DRIVE_SCAN_LOCK, or None
  fileLock,  \* [Files -> holder of HPLUS_DRIVE_FILE:<id>, or None]
  pc,        \* [Workers -> where the process is]
  step,      \* [Workers -> the transition a "store" completes]
  file,      \* [Workers -> the file it works on, or None]
  saw,       \* [Workers -> the status the read before the next write returned]
  to,        \* [Workers -> the status the next write stores]
  loc,       \* [Workers -> its other local variables]
  todo,      \* [Pollers -> folders not yet listed, files listed and not handled]
  syncs      \* [BatchIds -> the request synchronising a confirmed batch]

row   == <<status, meta, retry, link>>
env   == <<drive, mapped>>
imports == <<batches, accepted>>
locks == <<scanLock, fileLock>>
local == <<pc, step, file, saw, to, loc>>
vars  == <<env, row, imports, locks, local, todo, syncs>>

Blank == [list |-> None, want |-> FALSE, sha |-> None, count |-> 0, got |-> None,
          batch |-> None, snap |-> None, exec |-> FALSE]

Init ==
  /\ drive \in [Files -> [folder: Folders, name: Names, mtime: {0}, content: Contents]]
  /\ mapped = [g \in Folders |-> TRUE]
  /\ status = [f \in Files |-> Absent]
  /\ meta = [f \in Files |-> [folder |-> None, name |-> None, mtime |-> 0, sha |-> None]]
  /\ retry = [f \in Files |-> [count |-> 0, due |-> TRUE]]
  /\ link = [f \in Files |-> [last |-> None, ok |-> None]]
  /\ batches = [b \in BatchIds |-> None]
  /\ accepted = {}
  /\ scanLock = None
  /\ fileLock = [f \in Files |-> None]
  /\ pc = [p \in Workers |-> "off"]
  /\ step = [p \in Workers |-> "none"]
  /\ file = [p \in Workers |-> None]
  /\ saw = [p \in Workers |-> Absent]
  /\ to = [p \in Workers |-> Absent]
  /\ loc = [p \in Workers |-> Blank]
  /\ todo = [p \in Pollers |-> [folders |-> {}, files |-> {}]]
  /\ syncs = [b \in BatchIds |-> [pc |-> "off", file |-> None]]

-----------------------------------------------------------------------------
(* Locals. *)

Goto(p, l) == pc' = [pc EXCEPT ![p] = l]

(* Everything of p but pc stays as it is. *)
Keep == UNCHANGED <<step, file, saw, to, loc>>

SetLoc(p, r) == loc' = [loc EXCEPT ![p] = r] /\ UNCHANGED <<step, file, saw, to>>

-----------------------------------------------------------------------------
(* The poll: runPollOnce, runManualOneShotScan. *)

(* listActiveDriveFolderMappings. *)
ActiveMappings == {g \in Folders : mapped[g]}

(* listFilesInFolder(g): what Drive says of each file in it. *)
Listed(g) == {[file |-> f, folder |-> g, name |-> drive[f].name, mtime |-> drive[f].mtime] :
              f \in {h \in Files : drive[h].folder = g}}

(* drive:poll-once takes the global lock or skips; getMappings. *)
PollStart(p) ==
  /\ pc[p] = "off" /\ scanLock = None
  /\ scanLock' = p
  /\ todo' = [todo EXCEPT ![p].folders = ActiveMappings]
  /\ Goto(p, "next") /\ Keep
  /\ UNCHANGED <<env, row, imports, fileLock, syncs>>

(* The files of the next mapping. *)
ListFolder(p) ==
  /\ pc[p] = "next" /\ todo[p].files = {}
  /\ \E g \in todo[p].folders :
       todo' = [todo EXCEPT ![p] = [folders |-> @.folders \ {g}, files |-> Listed(g)]]
  /\ UNCHANGED <<env, row, imports, locks, local, syncs>>

PollEnd(p) ==
  /\ pc[p] = "next" /\ todo[p] = [folders |-> {}, files |-> {}]
  /\ scanLock' = None
  /\ Goto(p, "off") /\ Keep
  /\ UNCHANGED <<env, row, imports, fileLock, todo, syncs>>

(* getState of the next listed file: the classification and the download   *)
(* decision rest on this read, made before any file lock.                  *)
PickFile(p) ==
  /\ pc[p] = "next"
  /\ \E x \in todo[p].files :
       LET f == x.file
           want == ShouldDownload(Classification(status[f], meta[f], x), status[f])
       IN /\ todo' = [todo EXCEPT ![p].files = @ \ {x}]
          /\ file' = [file EXCEPT ![p] = f]
          /\ loc' = [loc EXCEPT ![p] = [Blank EXCEPT !.list = x, !.want = want]]
  /\ Goto(p, "enter")
  /\ UNCHANGED <<step, saw, to, env, row, imports, locks, syncs>>

(* Slip: the scan never takes the file lock. *)
EnterFileUnlocked(p) ==
  /\ pc[p] = "enter"
  /\ Goto(p, "upsert") /\ Keep
  /\ UNCHANGED <<env, row, imports, locks, todo, syncs>>

(* processFile runs at once when auto execution is on, and otherwise under *)
(* the file lock; a busy lock skips the file.                              *)
EnterFile(p) ==
  /\ pc[p] = "enter"
  /\ \/ /\ AutoExecution
        /\ Goto(p, "upsert")
        /\ UNCHANGED fileLock
     \/ /\ ~AutoExecution /\ fileLock[file[p]] = None
        /\ fileLock' = [fileLock EXCEPT ![file[p]] = p]
        /\ Goto(p, "upsert")
     \/ /\ ~AutoExecution /\ fileLock[file[p]] # None
        /\ Goto(p, "leave")
        /\ UNCHANGED fileLock
  /\ Keep
  /\ UNCHANGED <<env, row, imports, scanLock, todo, syncs>>

(* The reads of upsertDetectedDriveFile, and the status it will write. *)
UpsertRead(p) ==
  LET f == file[p]
      listed == loc[p].list
      usable == mapped[listed.folder]
  IN /\ pc[p] = "upsert"
     /\ saw' = [saw EXCEPT ![p] = status[f]]
     /\ to' = [to EXCEPT ![p] =
          IF status[f] = Absent THEN NewStatus(usable)
          ELSE UpsertStatus(status[f], meta[f].folder # listed.folder, usable,
                            ContentChanged(meta[f], listed))]
     /\ loc' = [loc EXCEPT ![p].sha = meta[f].sha]
     /\ Goto(p, "upsertWrite")
     /\ UNCHANGED <<step, file, env, row, imports, locks, todo, syncs>>

(* Its create or update, and the scan's decision on the row it returns. *)
UpsertWrite(p) ==
  LET f == file[p]
      listed == loc[p].list
  IN /\ pc[p] = "upsertWrite"
     /\ status' = [status EXCEPT ![f] = to[p]]
     /\ meta' = [meta EXCEPT ![f] = [folder |-> listed.folder, name |-> listed.name,
                                     mtime |-> listed.mtime, sha |-> loc[p].sha]]
     /\ \/ /\ loc[p].want /\ to[p] = "FAILED_RETRYABLE"
           /\ Goto(p, "toDetected")
        \/ /\ loc[p].want /\ to[p] \in Downloadable \ {"FAILED_RETRYABLE"}
           /\ Goto(p, "toDownloading")
        \/ /\ ~(loc[p].want /\ to[p] \in Downloadable)
           /\ Goto(p, "leave")
     /\ Keep
     /\ UNCHANGED <<env, retry, link, imports, locks, todo, syncs>>

(* downloadDriveFile: the bytes Drive holds now, whatever was listed. *)
Fetch(p) ==
  LET d == drive[file[p]]
  IN /\ pc[p] = "fetch"
     /\ \/ /\ d.folder # None
           /\ SetLoc(p, [loc[p] EXCEPT !.got = d.content])
           /\ Goto(p, "toReady")
        \/ /\ Keep
           /\ Goto(p, "failCount")
     /\ UNCHANGED <<env, row, imports, locks, todo, syncs>>

(* resolveAutoPreviewDecision and createAutoExecutionRegistry: a route off *)
(* the allow list, or a CTI or Town file with no target date, is left      *)
(* READY; the rest goes to its executor.                                   *)
Dispatch(p) ==
  LET g == loc[p].list.folder
      executes == /\ AutoExecution /\ g \in AutoFolders
                  /\ Family[g] = "HEAVEN" \/ loc[p].got \in Dated
  IN /\ pc[p] = "dispatch"
     /\ IF executes
          THEN SetLoc(p, [Blank EXCEPT !.exec = TRUE]) /\ Goto(p, "xlock")
          ELSE Keep /\ Goto(p, "leave")
     /\ UNCHANGED <<env, row, imports, locks, todo, syncs>>

-----------------------------------------------------------------------------
(* transitionDriveFileState: find and assert, then an unconditional update. *)

Transitions == {"toDetected", "toDownloading", "toReady", "toImporting",
                "toReview", "toFailed", "toReset"}

Target(p) ==
  CASE pc[p] = "toDetected"    -> "DETECTED"
    [] pc[p] = "toDownloading" -> "DOWNLOADING"
    [] pc[p] = "toReady"       -> "READY"
    [] pc[p] = "toImporting"   -> "IMPORTING"
    [] pc[p] = "toReview"      -> "REVIEW_REQUIRED"
    [] pc[p] = "toFailed"      -> FailureStatus(loc[p].count, ~loc[p].exec)
    [] pc[p] = "toReset"       -> "READY"

FamilyOf(f) == IF meta[f].folder = None THEN None ELSE Family[meta[f].folder]

(* Where the exception of a refused transition is caught: by               *)
(* markDriveFileFailure, or by nothing that touches the row.  The CTI      *)
(* executor goes to IMPORTING before its try, the others inside it.        *)
Caught(p) ==
  IF \/ pc[p] \in {"toDetected", "toDownloading", "toReady", "toReview"}
     \/ pc[p] = "toImporting" /\ loc[p].snap.family # "CTI"
  THEN "failCount" ELSE "leave"

TransitionRead(p) ==
  /\ pc[p] \in Transitions
  /\ \/ /\ CanTransition(status[file[p]], Target(p))
        /\ saw' = [saw EXCEPT ![p] = status[file[p]]]
        /\ to' = [to EXCEPT ![p] = Target(p)]
        /\ step' = [step EXCEPT ![p] = pc[p]]
        /\ Goto(p, "store")
        /\ UNCHANGED <<file, loc>>
     \/ /\ ~CanTransition(status[file[p]], Target(p))
        /\ Goto(p, Caught(p))
        /\ Keep
  /\ UNCHANGED <<env, row, imports, locks, todo, syncs>>

(* What follows each transition. *)
After(p) ==
  CASE step[p] = "toDetected"    -> "toDownloading"
    [] step[p] = "toDownloading" -> "fetch"
    [] step[p] = "toReady"       -> "dispatch"
    [] step[p] = "toImporting"   -> CASE loc[p].snap.family = "CTI"  -> "xfetch"
                                      [] loc[p].snap.family = "TOWN" -> "xpreview"
                                      [] OTHER                       -> "xfind"
    [] OTHER                     -> "leave"

(* Slip: linking a preview already records it as the last success. *)
StoreMarksSuccess(p) ==
  LET f == file[p]
  IN /\ pc[p] = "store"
     /\ status' = [status EXCEPT ![f] = to[p]]
     /\ meta' = IF step[p] = "toReady" THEN [meta EXCEPT ![f].sha = loc[p].got] ELSE meta
     /\ link' = IF step[p] = "toReview"
                  THEN [link EXCEPT ![f] = [last |-> loc[p].batch, ok |-> loc[p].batch]]
                  ELSE link
     /\ retry' = CASE step[p] = "toFailed" ->
                        [retry EXCEPT ![f] = [count |-> loc[p].count,
                                              due |-> to[p] # "FAILED_RETRYABLE"]]
                   [] step[p] = "toReset" -> [retry EXCEPT ![f].due = TRUE]
                   [] OTHER -> retry
     /\ Goto(p, After(p))
     /\ Keep
     /\ UNCHANGED <<env, imports, locks, todo, syncs>>

(* The update, with the columns each caller passes beside the status. *)
Store(p) ==
  LET f == file[p]
  IN /\ pc[p] = "store"
     /\ status' = [status EXCEPT ![f] = to[p]]
     /\ meta' = IF step[p] = "toReady" THEN [meta EXCEPT ![f].sha = loc[p].got] ELSE meta
     /\ link' = IF step[p] = "toReview" THEN [link EXCEPT ![f].last = loc[p].batch]
                                        ELSE link
     /\ retry' = CASE step[p] = "toFailed" ->
                        [retry EXCEPT ![f] = [count |-> loc[p].count,
                                              due |-> to[p] # "FAILED_RETRYABLE"]]
                   [] step[p] = "toReset" -> [retry EXCEPT ![f].due = TRUE]
                   [] OTHER -> retry
     /\ Goto(p, After(p))
     /\ Keep
     /\ UNCHANGED <<env, imports, locks, todo, syncs>>

(* The first read of markDriveFileFailure, which computes retryCount. *)
FailCount(p) ==
  /\ pc[p] = "failCount"
  /\ SetLoc(p, [loc[p] EXCEPT !.count = CountFailure(retry[file[p]].count)])
  /\ Goto(p, "toFailed")
  /\ UNCHANGED <<env, row, imports, locks, todo, syncs>>

(* Slip: the lock is not released on the way out. *)
LeaveKeepsLock(p) ==
  /\ pc[p] = "leave"
  /\ Goto(p, IF p \in Pollers THEN "next" ELSE "off")
  /\ step' = [step EXCEPT ![p] = "none"]
  /\ file' = [file EXCEPT ![p] = None]
  /\ saw' = [saw EXCEPT ![p] = Absent]
  /\ to' = [to EXCEPT ![p] = Absent]
  /\ loc' = [loc EXCEPT ![p] = Blank]
  /\ UNCHANGED <<env, row, imports, locks, todo, syncs>>

(* Return, or an exception that reaches the caller: withAdvisoryLock       *)
(* releases the file lock in its finally; the scan goes on to its next     *)
(* file, a command exits.                                                  *)
Leave(p) ==
  /\ pc[p] = "leave"
  /\ fileLock' = [f \in Files |-> IF fileLock[f] = p THEN None ELSE fileLock[f]]
  /\ Goto(p, IF p \in Pollers THEN "next" ELSE "off")
  /\ step' = [step EXCEPT ![p] = "none"]
  /\ file' = [file EXCEPT ![p] = None]
  /\ saw' = [saw EXCEPT ![p] = Absent]
  /\ to' = [to EXCEPT ![p] = Absent]
  /\ loc' = [loc EXCEPT ![p] = Blank]
  /\ UNCHANGED <<env, row, imports, scanLock, todo, syncs>>

-----------------------------------------------------------------------------
(* The executors: executeCtiDriveFile and its Town and Heaven siblings.    *)

(* An operator starts drive:execute-* for one file. *)
CliStart(p, f) ==
  /\ pc[p] = "off"
  /\ file' = [file EXCEPT ![p] = f]
  /\ loc' = [loc EXCEPT ![p] = [Blank EXCEPT !.exec = TRUE]]
  /\ Goto(p, "xlock")
  /\ UNCHANGED <<step, saw, to, env, row, imports, locks, todo, syncs>>

(* Slip: a busy lock does not stop the command. *)
TryLockIgnoresBusy(p) ==
  /\ pc[p] \in {"xlock", "resetLock"}
  /\ fileLock' = [fileLock EXCEPT ![file[p]] = p]
  /\ Goto(p, IF pc[p] = "xlock" THEN "xread" ELSE "resetRead")
  /\ Keep
  /\ UNCHANGED <<env, row, imports, scanLock, todo, syncs>>

(* withAdvisoryLock of an executor or of the reset. *)
TryLock(p) ==
  /\ pc[p] \in {"xlock", "resetLock"}
  /\ \/ /\ fileLock[file[p]] = None
        /\ fileLock' = [fileLock EXCEPT ![file[p]] = p]
        /\ Goto(p, IF pc[p] = "xlock" THEN "xread" ELSE "resetRead")
     \/ /\ fileLock[file[p]] # None
        /\ Goto(p, "leave")
        /\ UNCHANGED fileLock
  /\ Keep
  /\ UNCHANGED <<env, row, imports, scanLock, todo, syncs>>

(* sameIdentity: the linked batch was made from this content of this file. *)
SameIdentity(f) ==
  LET b == link[f].last
  IN /\ b # None
     /\ batches[b].file = f
     /\ batches[b].mtime = meta[f].mtime
     /\ batches[b].sha = meta[f].sha
     /\ FamilyOf(f) = "CTI" \/ batches[b].family = FamilyOf(f)

(* The state row with its mapping and its last batch: only a READY file of *)
(* a usable mapping, not yet previewed with this content, goes on.         *)
ExecRead(p) ==
  LET f == file[p]
      runs == status[f] = "READY" /\ mapped[meta[f].folder] /\ ~SameIdentity(f)
  IN /\ pc[p] = "xread"
     /\ IF runs
          THEN /\ SetLoc(p, [loc[p] EXCEPT !.snap =
                    [folder |-> meta[f].folder, mtime |-> meta[f].mtime,
                     sha |-> meta[f].sha, family |-> FamilyOf(f)]])
               /\ Goto(p, "xlist")
          ELSE Keep /\ Goto(p, "leave")
     /\ UNCHANGED <<env, row, imports, locks, todo, syncs>>

(* listFilesInFolder: the file must still be there, with the modification  *)
(* time of the row.                                                        *)
ExecList(p) ==
  LET d == drive[file[p]]
      s == loc[p].snap
  IN /\ pc[p] = "xlist"
     /\ Goto(p, IF d.folder # s.folder \/ d.mtime # s.mtime THEN "leave"
                ELSE IF s.family = "CTI" THEN "toImporting" ELSE "xfetch")
     /\ Keep
     /\ UNCHANGED <<env, row, imports, locks, todo, syncs>>

(* downloadDriveFile and the comparison of digests. *)
ExecFetch(p) ==
  LET d == drive[file[p]]
      s == loc[p].snap
  IN /\ pc[p] = "xfetch"
     /\ \/ /\ d.folder # None /\ (s.sha = None \/ d.content = s.sha)
           /\ SetLoc(p, [loc[p] EXCEPT !.got = d.content])
           /\ Goto(p, IF s.family = "CTI" THEN "xpreview" ELSE "xdup")
        \/ /\ Keep
           /\ Goto(p, "failCount")
     /\ UNCHANGED <<env, row, imports, locks, todo, syncs>>

(* The batches of this data type and store with digest c, in one of ss. *)
Matching(g, c, ss) ==
  {b \in BatchIds : batches[b] # None /\ batches[b].family = g
                      /\ batches[b].sha = c /\ batches[b].status \in ss}

Completed == {"COMPLETED", "COMPLETED_WITH_WARNINGS"}

(* DUPLICATE_COMPLETED_FILE: nothing is written, the row stays READY. *)
ExecDuplicate(p) ==
  /\ pc[p] = "xdup"
  /\ Goto(p, IF Matching(loc[p].snap.family, loc[p].got, Completed) # {}
             THEN "leave" ELSE "toImporting")
  /\ Keep
  /\ UNCHANGED <<env, row, imports, locks, todo, syncs>>

(* Slip: only completed batches are looked up, not those under review. *)
ReusableCompletedOnly(g, c) == IF g = "HEAVEN" THEN Matching(g, c, Completed) ELSE {}

(* The batches createHeavenPreview hands back instead of making a new one: *)
(* a completed batch of the digest, else one still under review.           *)
Reusable(g, c) ==
  LET done == Matching(g, c, Completed)
  IN IF g # "HEAVEN" THEN {}
     ELSE IF done # {} THEN done ELSE Matching(g, c, {"PREVIEW"})

(* createHeavenPreview looks for a batch to hand back. *)
ExecFind(p) ==
  LET reusable == Reusable(loc[p].snap.family, loc[p].got)
  IN /\ pc[p] = "xfind"
     /\ \/ \E b \in reusable :
             /\ SetLoc(p, [loc[p] EXCEPT !.batch = b])
             /\ Goto(p, "toReview")
        \/ reusable = {} /\ Goto(p, "xpreview") /\ Keep
     /\ UNCHANGED <<env, row, imports, locks, todo, syncs>>

(* createCtiPreview, createTownPreview, createHeavenPreview: a new batch   *)
(* with its preview, or none.                                              *)
ExecPreview(p) ==
  LET s == loc[p].snap
  IN /\ pc[p] = "xpreview"
     /\ \/ \E b \in BatchIds :
             /\ batches[b] = None
             /\ batches' = [batches EXCEPT ![b] =
                  [file |-> file[p], mtime |-> s.mtime, sha |-> loc[p].got,
                   family |-> s.family, status |-> "PREVIEW"]]
             /\ SetLoc(p, [loc[p] EXCEPT !.batch = b])
             /\ Goto(p, "toReview")
        \/ /\ Goto(p, "failCount") /\ Keep
           /\ UNCHANGED batches
     /\ UNCHANGED <<env, row, accepted, locks, todo, syncs>>

-----------------------------------------------------------------------------
(* resetDriveFileState: assertResettableDriveFileState under the file lock. *)

ResetStart(p, f) ==
  /\ pc[p] = "off"
  /\ file' = [file EXCEPT ![p] = f]
  /\ Goto(p, "resetLock")
  /\ UNCHANGED <<step, saw, to, loc, env, row, imports, locks, todo, syncs>>

(* Slip: a review with its batch may be reset. *)
ResettableWithBatch(f) ==
  /\ status[f] = "REVIEW_REQUIRED"
  /\ link[f].ok = None
  /\ mapped[meta[f].folder]
  /\ meta[f].sha # None

(* Slip: a file never downloaded may be reset to READY. *)
ResettableWithoutDigest(f) ==
  /\ status[f] = "REVIEW_REQUIRED"
  /\ link[f].last = None /\ link[f].ok = None
  /\ mapped[meta[f].folder]

(* assertResettableDriveFileState. *)
Resettable(f) ==
  /\ status[f] = "REVIEW_REQUIRED"
  /\ link[f].last = None /\ link[f].ok = None
  /\ mapped[meta[f].folder]
  /\ meta[f].sha # None

ResetRead(p) ==
  /\ pc[p] = "resetRead"
  /\ Goto(p, IF Resettable(file[p]) THEN "toReset" ELSE "leave")
  /\ Keep
  /\ UNCHANGED <<env, row, imports, locks, todo, syncs>>

-----------------------------------------------------------------------------
(* Confirmation on the review page, and syncDriveFileStateAfterConfirmed-  *)
(* Import, which the confirm route calls once when confirmation returns.   *)

(* confirmCtiImport, confirmTownImport, confirmHeavenImport, as one step:  *)
(* their own interleavings are not the subject here.  Heaven cancels a     *)
(* batch whose digest is already completed.  Only Heaven can tell the two  *)
(* completed statuses apart later (see Reopen).                            *)
Confirm(b) ==
  /\ batches[b] # None /\ syncs[b].pc = "off"
  /\ LET family == batches[b].family
         others == Matching(family, batches[b].sha, Completed) \ {b}
     IN \/ /\ family = "HEAVEN" /\ others # {}
           /\ batches' = [batches EXCEPT ![b].status = "CANCELLED"]
           /\ UNCHANGED <<accepted, syncs>>
        \/ /\ ~(family = "HEAVEN" /\ others # {})
           /\ batches[b].status = "PREVIEW"
           /\ \E s \in IF family = "HEAVEN" THEN Completed ELSE {"COMPLETED"} :
                batches' = [batches EXCEPT ![b].status = s]
           /\ accepted' = accepted \cup {b}
           /\ syncs' = [syncs EXCEPT ![b].pc = "read"]
  /\ UNCHANGED <<env, row, locks, local, todo>>

(* reparseHeavenBatch of a batch completed with warnings makes it a        *)
(* preview again.                                                          *)
Reopen(b) ==
  /\ "reopen" \in Env
  /\ batches[b] # None /\ batches[b].family = "HEAVEN"
  /\ batches[b].status = "COMPLETED_WITH_WARNINGS"
  /\ batches' = [batches EXCEPT ![b].status = "PREVIEW"]
  /\ UNCHANGED <<env, row, accepted, locks, local, todo, syncs>>

SyncDone(b) == syncs' = [syncs EXCEPT ![b] = [pc |-> "off", file |-> None]]

(* The batch must still be completed. *)
SyncRead(b) ==
  /\ syncs[b].pc = "read"
  /\ IF batches[b].status \in Completed
       THEN syncs' = [syncs EXCEPT ![b].pc = "lock"]
       ELSE SyncDone(b)
  /\ UNCHANGED <<env, row, imports, locks, local, todo>>

(* The lock of the file named in the batch's metadata; busy: NOOP. *)
SyncLock(b) ==
  LET f == batches[b].file
  IN /\ syncs[b].pc = "lock"
     /\ \/ /\ fileLock[f] = None
           /\ fileLock' = [fileLock EXCEPT ![f] = b]
           /\ syncs' = [syncs EXCEPT ![b].pc = "find"]
        \/ /\ fileLock[f] # None
           /\ SyncDone(b)
           /\ UNCHANGED fileLock
     /\ UNCHANGED <<env, row, imports, scanLock, local, todo>>

Unlock(q) == fileLock' = [f \in Files |-> IF fileLock[f] = q THEN None ELSE fileLock[f]]

(* findFirst: some row linked to the batch.  NOOP when there is none or it *)
(* is already synchronised, CONFLICT when it is not under review.          *)
SyncFind(b) ==
  LET linked == {f \in Files : status[f] # Absent /\ link[f].last = b}
  IN /\ syncs[b].pc = "find"
     /\ \/ \E f \in linked :
             IF status[f] = "REVIEW_REQUIRED"
               THEN /\ syncs' = [syncs EXCEPT ![b] = [pc |-> "write", file |-> f]]
                    /\ UNCHANGED fileLock
               ELSE SyncDone(b) /\ Unlock(b)
        \/ linked = {} /\ SyncDone(b) /\ Unlock(b)
     /\ UNCHANGED <<env, row, imports, scanLock, local, todo>>

(* Slip: an update of the row found, without its conditions. *)
SyncWriteUnconditional(b) ==
  LET f == syncs[b].file
  IN /\ syncs[b].pc = "write"
     /\ status' = [status EXCEPT ![f] = "IMPORTED"]
     /\ link' = [link EXCEPT ![f].ok = b]
     /\ retry' = [retry EXCEPT ![f].due = TRUE]
     /\ SyncDone(b) /\ Unlock(b)
     /\ UNCHANGED <<env, meta, imports, scanLock, local, todo>>

(* The conditional updateMany: one statement, guarded by status and batch. *)
SyncWrite(b) ==
  LET f == syncs[b].file
  IN /\ syncs[b].pc = "write"
     /\ IF status[f] = "REVIEW_REQUIRED" /\ link[f].last = b
          THEN /\ status' = [status EXCEPT ![f] = "IMPORTED"]
               /\ link' = [link EXCEPT ![f].ok = b]
               /\ retry' = [retry EXCEPT ![f].due = TRUE]
          ELSE UNCHANGED <<status, link, retry>>
     /\ SyncDone(b) /\ Unlock(b)
     /\ UNCHANGED <<env, meta, imports, scanLock, local, todo>>

-----------------------------------------------------------------------------
(* The environment; Env names the moves an instance allows. *)

(* Someone edits a file in Drive: its time moves on, its bytes may not. *)
DriveEdit(f) ==
  /\ "edit" \in Env /\ drive[f].mtime < MaxEdits
  /\ \E c \in Contents :
       drive' = [drive EXCEPT ![f].mtime = @ + 1, ![f].content = c]
  /\ UNCHANGED <<mapped, row, imports, locks, local, todo, syncs>>

(* Someone moves it to another mapped folder, out of them all, or back. *)
DriveMove(f) ==
  /\ "move" \in Env
  /\ \E g \in (Folders \cup {None}) \ {drive[f].folder} :
       drive' = [drive EXCEPT ![f].folder = g]
  /\ UNCHANGED <<mapped, row, imports, locks, local, todo, syncs>>

DriveRename(f) ==
  /\ "rename" \in Env
  /\ \E n \in Names \ {drive[f].name} : drive' = [drive EXCEPT ![f].name = n]
  /\ UNCHANGED <<mapped, row, imports, locks, local, todo, syncs>>

(* An administrator switches a mapping on or off. *)
SetMapping(g) ==
  /\ "mapping" \in Env
  /\ mapped' = [mapped EXCEPT ![g] = ~@]
  /\ UNCHANGED <<drive, row, imports, locks, local, todo, syncs>>

(* nextRetryAt passes. *)
RetryDue(f) ==
  /\ ~retry[f].due
  /\ retry' = [retry EXCEPT ![f].due = TRUE]
  /\ UNCHANGED <<env, status, meta, link, imports, locks, local, todo, syncs>>

(* A process dies: its database connections close and with them its        *)
(* advisory locks; the rows stay as they are.                              *)
Crash(p) ==
  /\ "crash" \in Env /\ pc[p] # "off"
  /\ Unlock(p)
  /\ scanLock' = IF scanLock = p THEN None ELSE scanLock
  /\ Goto(p, "off")
  /\ step' = [step EXCEPT ![p] = "none"]
  /\ file' = [file EXCEPT ![p] = None]
  /\ saw' = [saw EXCEPT ![p] = Absent]
  /\ to' = [to EXCEPT ![p] = Absent]
  /\ loc' = [loc EXCEPT ![p] = Blank]
  /\ todo' = IF p \in Pollers
               THEN [todo EXCEPT ![p] = [folders |-> {}, files |-> {}]] ELSE todo
  /\ UNCHANGED <<env, row, imports, syncs>>

SyncCrash(b) ==
  /\ "crash" \in Env /\ syncs[b].pc # "off"
  /\ SyncDone(b) /\ Unlock(b)
  /\ UNCHANGED <<env, row, imports, scanLock, local, todo>>

-----------------------------------------------------------------------------
Scan(p) == \/ PollStart(p) \/ ListFolder(p) \/ PollEnd(p) \/ PickFile(p)
           \/ EnterFile(p) \/ UpsertRead(p) \/ UpsertWrite(p)
           \/ Fetch(p) \/ Dispatch(p)

(* The steps shared by every process that works on a row. *)
Work(p) == \/ TryLock(p) \/ ExecRead(p) \/ ExecList(p) \/ ExecFetch(p)
           \/ ExecDuplicate(p) \/ ExecFind(p) \/ ExecPreview(p) \/ ResetRead(p)
           \/ TransitionRead(p) \/ Store(p) \/ FailCount(p) \/ Leave(p)

Sync(b) == SyncRead(b) \/ SyncLock(b) \/ SyncFind(b) \/ SyncWrite(b)

(* What people do. *)
Human == \/ \E p \in Clis, f \in Files : CliStart(p, f)
         \/ \E p \in Operators, f \in Files : ResetStart(p, f)
         \/ \E b \in BatchIds : Confirm(b) \/ Reopen(b)
         \/ \E f \in Files : DriveEdit(f) \/ DriveMove(f) \/ DriveRename(f)
         \/ \E g \in Folders : SetMapping(g)

Failures == (\E p \in Workers : Crash(p)) \/ (\E b \in BatchIds : SyncCrash(b))

Next == \/ \E p \in Pollers : Scan(p)
        \/ \E p \in Workers : Work(p)
        \/ \E b \in BatchIds : Sync(b)
        \/ Human
        \/ \E f \in Files : RetryDue(f)
        \/ Failures

Spec == Init /\ [][Next]_vars

(* Cron starts a poll every ten minutes, a process that runs keeps         *)
(* running, and time passes.  Nothing makes a person act.                  *)
Fairness == /\ \A p \in Pollers : WF_vars(Scan(p) \/ Work(p))
            /\ \A p \in Clis \cup Operators : WF_vars(Work(p))
            /\ \A b \in BatchIds : WF_vars(Sync(b))
            /\ \A f \in Files : WF_vars(RetryDue(f))

FairSpec == Spec /\ Fairness

-----------------------------------------------------------------------------
(* Properties. *)

Listing == [file: Files, folder: Folders, name: Names, mtime: 0..MaxEdits]

Steps == Transitions \cup {"none"}

Labels == Transitions \cup
  {"off", "next", "enter", "upsert", "upsertWrite", "fetch", "dispatch", "store",
   "failCount", "leave", "xlock", "xread", "xlist", "xfetch", "xdup", "xfind", "xpreview",
   "resetLock", "resetRead"}

Batch == [file: Files, mtime: 0..MaxEdits, sha: Contents, family: {"CTI", "TOWN", "HEAVEN"},
          status: {"PREVIEW", "CANCELLED"} \cup Completed]

ASSUME NoneIsNoBatch == None \notin Batch

Snapshot == [folder: Folders, mtime: 0..MaxEdits, sha: Contents \cup {None},
             family: {"CTI", "TOWN", "HEAVEN"}]

Local == [list: Listing \cup {None}, want: BOOLEAN, sha: Contents \cup {None},
          count: 0..(MaxRetry + 1), got: Contents \cup {None},
          batch: BatchIds \cup {None}, snap: Snapshot \cup {None}, exec: BOOLEAN]

(* Every variable has its type. *)
TypeOK ==
  /\ drive \in [Files -> [folder: Folders \cup {None}, name: Names,
                          mtime: 0..MaxEdits, content: Contents]]
  /\ mapped \in [Folders -> BOOLEAN]
  /\ status \in [Files -> Statuses \cup {Absent}]
  /\ meta \in [Files -> [folder: Folders \cup {None}, name: Names \cup {None},
                         mtime: 0..MaxEdits, sha: Contents \cup {None}]]
  /\ retry \in [Files -> [count: 0..(MaxRetry + 1), due: BOOLEAN]]
  /\ link \in [Files -> [last: BatchIds \cup {None}, ok: BatchIds \cup {None}]]
  /\ batches \in [BatchIds -> Batch \cup {None}]
  /\ accepted \subseteq BatchIds
  /\ scanLock \in Pollers \cup {None}
  /\ fileLock \in [Files -> Workers \cup BatchIds \cup {None}]
  /\ pc \in [Workers -> Labels]
  /\ step \in [Workers -> Steps]
  /\ file \in [Workers -> Files \cup {None}]
  /\ saw \in [Workers -> Statuses \cup {Absent}]
  /\ to \in [Workers -> Statuses \cup {Absent}]
  /\ loc \in [Workers -> Local]
  /\ todo \in [Pollers -> [folders: SUBSET Folders, files: SUBSET Listing]]
  /\ syncs \in [BatchIds -> [pc: {"off", "read", "lock", "find", "write"},
                             file: Files \cup {None}]]

(* A file that reads IMPORTED, and a batch recorded as its last success,   *)
(* have been confirmed by a person: no stale write, retry or crash marks a *)
(* file imported on its own (post-confirm-sync.ts, PHASE_I_I8:45).         *)
ImportedWasConfirmed ==
  \A f \in Files : /\ status[f] = "IMPORTED" => link[f].ok # None
                   /\ link[f].ok # None => link[f].ok \in accepted

(* A file waits for a retry only while its failures are within             *)
(* MAX_RETRY_COUNT (markDriveFileFailure).                                 *)
RetryableWithinCap ==
  \A f \in Files : status[f] = "FAILED_RETRYABLE" => retry[f].count \in 1..MaxRetry

(* A file that may be executed has a stored digest, so the executors'      *)
(* optional comparison `state.sha256 && ...` always compares.              *)
ReadyHasDigest ==
  \A f \in Files : status[f] \in {"READY", "IMPORTING"} => meta[f].sha # None

(* The executors never make two previews of one content of one file:       *)
(* driveFileId, driveModifiedTime and sha256 identify it                   *)
(* (PHASE_I_IMPORT_EXECUTION_DECISIONS:147-155, PHASE_I_I8:49).            *)
OnePreviewPerContent ==
  \A b, c \in BatchIds :
    /\ b # c /\ batches[b] # None /\ batches[c] # None
    /\ "CANCELLED" \notin {batches[b].status, batches[c].status}
    => <<batches[b].file, batches[b].mtime, batches[b].sha, batches[b].family>>
         # <<batches[c].file, batches[c].mtime, batches[c].sha, batches[c].family>>

(* Under the file lock no read of a row goes stale before the write that   *)
(* rests on it: the row still has the status that was read, but for a      *)
(* review synchronised through another file that shares its Heaven batch.  *)
NoStaleWrite ==
  \A p \in Workers :
    pc[p] \in {"upsertWrite", "store"} =>
      \/ status[file[p]] = saw[p]
      \/ saw[p] = "REVIEW_REQUIRED" /\ status[file[p]] = "IMPORTED"

(* A batch a file is linked to is replaced by another only after a person  *)
(* has confirmed it: a preview under review is never dropped.              *)
ReviewNotAbandoned ==
  [][\A f \in Files :
       link[f].last \notin {None, link'[f].last} => link[f].last \in accepted]_vars

(* The whole pipeline implements the lifecycle readers rely on. *)
Lifecycle == INSTANCE DriveFileLifecycle
               WITH success <- [f \in Files |-> link[f].ok]

LifecycleSpec == Lifecycle!Spec

(* A detected file does not stay DETECTED or DOWNLOADING: the following    *)
(* polls download it, retry it or give it up.                              *)
DetectedIsHandled ==
  \A f \in Files : status[f] \in {"DETECTED", "DOWNLOADING", "FAILED_RETRYABLE"} ~>
                     status[f] \notin {"DETECTED", "DOWNLOADING", "FAILED_RETRYABLE"}

(* New content of an imported file is eventually detected again. *)
ChangeIsDetected ==
  \A f \in Files : (status[f] = "IMPORTED" /\ drive[f].mtime # meta[f].mtime) ~>
                     (status[f] # "IMPORTED" /\ drive[f].mtime = meta[f].mtime)

(* No process keeps a file lock for ever. *)
LockIsReleased == \A f \in Files : fileLock[f] # None ~> fileLock[f] = None

-----------------------------------------------------------------------------
(* What a document says of the pipeline and the code does not do.          *)

(* PHASE_I_I9_PRODUCTION_ROLLOUT.md:83, PHASE_H_H8:32: a failed file is    *)
(* tried again from nextRetryAt on, not before.                            *)
RetryWaitsUntilDue ==
  [][\A f \in Files :
       status[f] = "FAILED_RETRYABLE" /\ status'[f] \in {"DETECTED", "DOWNLOADING"}
         => retry[f].due]_vars

(* PHASE_H_DRIVE_STATE_SPECIFICATION.md:111: IMPORTED means the latest     *)
(* content was imported.  Here: an IMPORTED file whose recorded time is    *)
(* the one in Drive was imported with the bytes Drive holds.               *)
ImportedIsLatest ==
  \A f \in Files :
    status[f] = "IMPORTED" /\ meta[f].mtime = drive[f].mtime
      => batches[link[f].ok].sha = drive[f].content

(* PHASE_I_I4_CTI_POST_CONFIRM_SYNC.md:50: a synchronisation that failed   *)
(* is retried: the file of a confirmed batch leaves review in the end.     *)
ConfirmedIsImported ==
  \A f \in Files :
    (status[f] = "REVIEW_REQUIRED" /\ link[f].last \in accepted)
      ~> status[f] # "REVIEW_REQUIRED"

(* PHASE_I_I9_PRODUCTION_ROLLOUT.md:78,80: a file left DOWNLOADING or      *)
(* IMPORTING falls under the retry policy.                                 *)
WorkIsResumed ==
  \A f \in Files : status[f] \in {"DOWNLOADING", "IMPORTING"}
                     ~> status[f] \notin {"DOWNLOADING", "IMPORTING"}
=============================================================================
