--------------------------- MODULE DriveFileState ---------------------------
(***************************************************************************)
(* The rules of src/lib/import-automation/google-drive/file-state-service  *)
(* .ts and of the decisions that read one row of drive_file_states.  No    *)
(* state here: DrivePipeline calls these operators from its actions.       *)
(***************************************************************************)
EXTENDS Naturals

CONSTANT MaxRetry      \* MAX_RETRY_COUNT = RETRY_BACKOFF_MINUTES.length (4)

ASSUME MaxRetryAssumption == MaxRetry \in Nat \ {0}

(* DriveFileStatus of prisma/schema.prisma. *)
Statuses == {"DETECTED", "DOWNLOADING", "READY", "IMPORTING", "IMPORTED",
             "FAILED_RETRYABLE", "FAILED_FINAL", "UNMAPPED", "REVIEW_REQUIRED"}

(* A driveFileId that has no row yet. *)
Absent == "ABSENT"

-----------------------------------------------------------------------------
(* allowedTransitions, as a set of edges. *)
AllowedTransitions ==
       {"DETECTED"} \X {"DOWNLOADING", "UNMAPPED", "REVIEW_REQUIRED"}
  \cup {"DOWNLOADING"} \X {"READY", "FAILED_RETRYABLE", "FAILED_FINAL",
                           "REVIEW_REQUIRED"}
  \cup {"READY"} \X {"DOWNLOADING", "IMPORTING", "FAILED_RETRYABLE",
                     "FAILED_FINAL", "REVIEW_REQUIRED"}
  \cup {"IMPORTING"} \X {"IMPORTED", "FAILED_RETRYABLE", "FAILED_FINAL",
                         "REVIEW_REQUIRED"}
  \cup {"IMPORTED"} \X {"DETECTED", "REVIEW_REQUIRED"}
  \cup {"FAILED_RETRYABLE"} \X {"DETECTED", "DOWNLOADING", "REVIEW_REQUIRED"}
  \cup {"FAILED_FINAL"} \X {"DETECTED", "REVIEW_REQUIRED"}
  \cup {"UNMAPPED"} \X {"DETECTED", "REVIEW_REQUIRED"}
  \cup {"REVIEW_REQUIRED"} \X {"DETECTED", "READY"}

CanTransition(from, to) == <<from, to>> \in AllowedTransitions

(* classifyDriveFileUpdate: the scan has no digest of the listed file, so   *)
(* "content_unchanged" is unreachable from it and only the time decides.    *)
ContentChanged(known, listed) == known.mtime # listed.mtime

(* Slip: new content of an imported file is not detected again. *)
UpsertStatusForgetsChange(s, moved, usable, changed) ==
  IF moved THEN "REVIEW_REQUIRED" ELSE IF ~usable THEN "UNMAPPED" ELSE s

(* Slip: the scan's classification is stored in the status column. *)
UpsertStatusClassified(s, moved, usable, changed) ==
  IF moved THEN "MOVED"
  ELSE IF ~usable THEN "UNMAPPED"
  ELSE IF changed /\ s = "IMPORTED" THEN "DETECTED"
  ELSE s

(* The status upsertDetectedDriveFile writes over an existing row whose     *)
(* status it read as s.  moved stands for folderMoved || mappingChanged     *)
(* (a mapping is one folder), usable for mappingUsable.                     *)
UpsertStatus(s, moved, usable, changed) ==
  IF moved THEN "REVIEW_REQUIRED"
  ELSE IF ~usable THEN "UNMAPPED"
  ELSE IF changed /\ s = "IMPORTED" THEN "DETECTED"
  ELSE s

(* The status of the row it creates. *)
NewStatus(usable) == IF usable THEN "DETECTED" ELSE "UNMAPPED"

(* Slip: one retry too many. *)
FailureStatusOffByOne(n, retryable) ==
  IF retryable /\ n <= MaxRetry + 1 THEN "FAILED_RETRYABLE" ELSE "FAILED_FINAL"

(* markDriveFileFailure: the status after a failure, n being the value of   *)
(* retryCount after it.                                                     *)
FailureStatus(n, retryable) ==
  IF retryable /\ n <= MaxRetry THEN "FAILED_RETRYABLE" ELSE "FAILED_FINAL"

(* retryCount after one more failure.  Every value above MaxRetry behaves   *)
(* the same, so the model stops counting at MaxRetry + 1.                   *)
CountFailure(n) == IF n > MaxRetry THEN n ELSE n + 1

-----------------------------------------------------------------------------
(* classification() of one-shot-scan.ts, known being the row the scan read  *)
(* first and listed the file as Drive listed it.                            *)
Classification(s, known, listed) ==
  CASE s = Absent                         -> "NEW"
    [] known.folder # listed.folder       -> "MOVED"
    [] known.name # listed.name           -> "RENAMED"
    [] ContentChanged(known, listed)      -> "CHANGED"
    [] OTHER                              -> "UNCHANGED"

(* Slip: a file whose listing has not changed is never downloaded. *)
ShouldDownloadChangedOnly(kind, s) ==
  \/ kind = "NEW"
  \/ kind \in {"CHANGED", "RENAMED", "MOVED"}
       /\ s \in {"DETECTED", "READY", "FAILED_RETRYABLE"}

(* shouldDownload() of one-shot-scan.ts. *)
ShouldDownload(kind, s) ==
  \/ kind = "NEW"
  \/ kind = "UNCHANGED" /\ s \in {"DETECTED", "FAILED_RETRYABLE"}
  \/ kind \in {"CHANGED", "RENAMED", "MOVED"}
       /\ s \in {"DETECTED", "READY", "FAILED_RETRYABLE"}

(* The statuses from which the scan goes on to download. *)
Downloadable == {"DETECTED", "READY", "FAILED_RETRYABLE"}
=============================================================================
