------------------------- MODULE DriveFileLifecycle -------------------------
(***************************************************************************)
(* What drive_file_states promises its readers, with no process, lock or   *)
(* snapshot in sight: the status of a file moves along the edges of the    *)
(* transition table (or the detection edges of upsertDetectedDriveFile),   *)
(* and it reaches IMPORTED only from REVIEW_REQUIRED, with a batch a       *)
(* person has confirmed.  DrivePipeline is shown to implement this module  *)
(* when every writer works under the file lock.                            *)
(***************************************************************************)
EXTENDS DriveFileState

CONSTANTS Files, BatchIds, None

VARIABLES status,      \* the status column of each file, or Absent
          success,     \* lastSuccessfulImportBatchId of each file, or None
          accepted     \* the batches some person has confirmed so far

vars == <<status, success, accepted>>

(* Edges a detection may take from any row: a moved file goes to review,   *)
(* a file whose mapping is unusable becomes UNMAPPED.                      *)
DetectionEdge(s, t) ==
  \/ s = Absent /\ t \in {"DETECTED", "UNMAPPED"}
  \/ s # Absent /\ t \in {"UNMAPPED", "REVIEW_REQUIRED"}

(* IMPORTED is never entered this way: see Import. *)
Edge(s, t) == t # "IMPORTED" /\ (CanTransition(s, t) \/ DetectionEdge(s, t))

Init == /\ status = [f \in Files |-> Absent]
        /\ success = [f \in Files |-> None]
        /\ accepted = {}

(* A step of detection, download or preview. *)
Move(f) == /\ \E t \in Statuses : /\ Edge(status[f], t)
                                  /\ status' = [status EXCEPT ![f] = t]
           /\ UNCHANGED <<success, accepted>>

(* A person confirms a batch on its review page. *)
Confirm(b) == /\ accepted' = accepted \cup {b}
              /\ UNCHANGED <<status, success>>

(* The file of a confirmed batch becomes IMPORTED. *)
Import(f, b) == /\ status[f] = "REVIEW_REQUIRED"
                /\ b \in accepted
                /\ status' = [status EXCEPT ![f] = "IMPORTED"]
                /\ success' = [success EXCEPT ![f] = b]
                /\ UNCHANGED accepted

Next == \/ \E f \in Files : Move(f)
        \/ \E b \in BatchIds : Confirm(b)
        \/ \E f \in Files, b \in BatchIds : Import(f, b)

Spec == Init /\ [][Next]_vars
=============================================================================
