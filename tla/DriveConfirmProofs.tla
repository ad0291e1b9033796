------------------------- MODULE DriveConfirmProofs -------------------------
(***************************************************************************)
(* What holds whatever the mode, with the scan under the file lock or not, *)
(* and whoever crashes, for every choice of the constants.  No file is     *)
(* IMPORTED, and no batch recorded as a last success, unless a person has  *)
(* confirmed the batch.  A file lock has a holder that is running.  A      *)
(* content of a file has one Heaven batch.                                 *)
(***************************************************************************)
EXTENDS DrivePipelineProofs

(* What makes ImportedWasConfirmed inductive: IMPORTED is only ever copied *)
(* by a detection from a row that has its success, no transition leads to  *)
(* it, and a synchronisation runs for a confirmed batch.                   *)
Pending(p) ==
  /\ pc[p] = "upsertWrite" /\ to[p] = "IMPORTED" => link[file[p]].ok # None
  /\ pc[p] = "store" => to[p] # "IMPORTED"

Requests == \A b \in BatchIds : syncs[b].pc # "off" => b \in accepted

ConfirmInv == /\ ImportedWasConfirmed
              /\ \A p \in Workers : Pending(p)
              /\ Requests

LEMMA ConfirmInit == Init => ConfirmInv
BY DEF Init, ConfirmInv, ImportedWasConfirmed, Pending, Requests, Absent

-----------------------------------------------------------------------------
(* A step of a process that neither computes nor writes a status.          *)
Quiet(p) ==
  /\ pc'[p] \notin {"upsertWrite", "store"}
  /\ OnlyLocals(p)
  /\ UNCHANGED <<row, accepted, syncs>>

LEMMA QuietScan ==
  ASSUME TypeInv, NEW p \in Pollers, Scan(p), ~UpsertRead(p), ~UpsertWrite(p), ~ListFolder(p)
  PROVE  Quiet(p)
<1>1. p \in Workers /\ LocalType
  BY TypeGroups DEF TypeInv, Workers
<1>2. CASE PollStart(p) \/ PollEnd(p)
  BY <1>1, <1>2 DEF PollStart, PollEnd, Goto, Keep, Quiet, OnlyLocals, LocalType, imports
<1>3. CASE PickFile(p)
  BY <1>1, <1>3 DEF PickFile, Goto, Quiet, OnlyLocals, LocalType, imports
<1>4. CASE EnterFile(p)
  BY <1>1, <1>4 DEF EnterFile, Goto, Keep, Quiet, OnlyLocals, LocalType, imports
<1>5. CASE Fetch(p) \/ Dispatch(p)
  BY <1>1, <1>5 DEF Fetch, Dispatch, Goto, Keep, SetLoc, Quiet, OnlyLocals, LocalType, imports
<1> QED
  BY <1>2, <1>3, <1>4, <1>5 DEF Scan

LEMMA QuietWork ==
  ASSUME TypeInv, NEW p \in Workers, Work(p), ~TransitionRead(p), ~Store(p)
  PROVE  Quiet(p)
<1>1. LocalType
  BY TypeGroups DEF TypeInv
<1>2. CASE TryLock(p) \/ ResetRead(p) \/ FailCount(p) \/ Leave(p)
  BY <1>1, <1>2 DEF TryLock, ResetRead, FailCount, Leave, Goto, Keep, SetLoc, Quiet,
                    OnlyLocals, LocalType, imports
<1>3. CASE ExecRead(p) \/ ExecList(p) \/ ExecFetch(p) \/ ExecDuplicate(p) \/ ExecFind(p)
  BY <1>1, <1>3 DEF ExecRead, ExecList, ExecFetch, ExecDuplicate, ExecFind, Goto, Keep, SetLoc,
                    Quiet, OnlyLocals, LocalType, imports
<1>4. CASE ExecPreview(p)
  BY <1>1, <1>4 DEF ExecPreview, Goto, Keep, SetLoc, Quiet, OnlyLocals, LocalType
<1> QED
  BY <1>2, <1>3, <1>4 DEF Work

LEMMA QuietCrash ==
  ASSUME TypeInv, NEW p \in Workers, Crash(p) PROVE Quiet(p)
BY TypeGroups DEF TypeInv, Crash, Goto, Quiet, OnlyLocals, LocalType, imports

LEMMA QuietStart ==
  ASSUME TypeInv, NEW p \in Workers, NEW f \in Files, CliStart(p, f) \/ ResetStart(p, f)
  PROVE  Quiet(p)
BY TypeGroups DEF TypeInv, CliStart, ResetStart, Goto, Quiet, OnlyLocals, LocalType, imports

-----------------------------------------------------------------------------
LEMMA ConfirmQuiet ==
  ASSUME TypeInv, ConfirmInv, NEW p \in Workers, Quiet(p) PROVE ConfirmInv'
<1>1. ImportedWasConfirmed' /\ Requests'
  BY DEF ConfirmInv, ImportedWasConfirmed, Requests, Quiet, row
<1>2. \A q \in Workers : Pending(q)'
  BY DEF ConfirmInv, Pending, Quiet, OnlyLocals, row
<1> QED
  BY <1>1, <1>2 DEF ConfirmInv

(* A detection copies IMPORTED only from a row with its success. *)
LEMMA ConfirmUpsertRead ==
  ASSUME TypeInv, ConfirmInv, NEW p \in Pollers, UpsertRead(p) PROVE ConfirmInv'
<1>1. p \in Workers /\ LocalType /\ ShapeOf(p)
  BY TypeGroups DEF TypeInv, Shape, Workers
<1>2. file[p] \in Files /\ file' = file
  BY <1>1 DEF UpsertRead, ShapeOf
<1>3. to'[p] = "IMPORTED" => status[file[p]] = "IMPORTED"
  BY <1>1 DEF UpsertRead, LocalType, UpsertStatus, NewStatus
<1>4. Pending(p)'
  BY <1>1, <1>2, <1>3 DEF UpsertRead, Goto, LocalType, ConfirmInv, ImportedWasConfirmed,
                          Pending, row
<1>5. \A q \in Workers \ {p} : Pending(q)'
  BY <1>1 DEF UpsertRead, Goto, LocalType, ConfirmInv, Pending, row
<1>6. ImportedWasConfirmed' /\ Requests'
  BY DEF UpsertRead, ConfirmInv, ImportedWasConfirmed, Requests, row, imports
<1> QED
  BY <1>4, <1>5, <1>6 DEF ConfirmInv

LEMMA ConfirmUpsertWrite ==
  ASSUME TypeInv, ConfirmInv, NEW p \in Pollers, UpsertWrite(p) PROVE ConfirmInv'
<1>1. p \in Workers /\ RowType /\ LocalType /\ ShapeOf(p)
  BY TypeGroups DEF TypeInv, Shape, Workers
<1>2. file[p] \in Files /\ (to[p] = "IMPORTED" => link[file[p]].ok # None)
  BY <1>1 DEF UpsertWrite, ShapeOf, ConfirmInv, Pending
<1>3. ImportedWasConfirmed' /\ Requests'
  BY <1>1, <1>2 DEF UpsertWrite, RowType, ConfirmInv, ImportedWasConfirmed, Requests, imports
<1>4. \A q \in Workers : Pending(q)'
  BY <1>1 DEF UpsertWrite, Goto, Keep, LocalType, ConfirmInv, Pending
<1> QED
  BY <1>3, <1>4 DEF ConfirmInv

(* No transition a process asks for leads to IMPORTED. *)
LEMMA ConfirmTransitionRead ==
  ASSUME TypeInv, ConfirmInv, NEW p \in Workers, TransitionRead(p) PROVE ConfirmInv'
<1>1. LocalType
  BY TypeGroups DEF TypeInv
<1>2. pc[p] \in Transitions => Target(p) # "IMPORTED"
  BY DEF Transitions, Target, FailureStatus
<1>3. Caught(p) \notin {"store", "upsertWrite"}
  BY DEF Caught
<1>4. \A q \in Workers : Pending(q)'
  BY <1>1, <1>2, <1>3 DEF TransitionRead, Goto, Keep, LocalType, ConfirmInv, Pending, row
<1>5. ImportedWasConfirmed' /\ Requests'
  BY DEF TransitionRead, ConfirmInv, ImportedWasConfirmed, Requests, row, imports
<1> QED
  BY <1>4, <1>5 DEF ConfirmInv

LEMMA ConfirmStore ==
  ASSUME TypeInv, ConfirmInv, NEW p \in Workers, Store(p) PROVE ConfirmInv'
<1>1. RowType /\ LocalType /\ ShapeOf(p)
  BY TypeGroups DEF TypeInv, Shape
<1>2. file[p] \in Files /\ to[p] # "IMPORTED"
  BY <1>1 DEF Store, ShapeOf, ConfirmInv, Pending
<1>3. \A f \in Files : link'[f].ok = link[f].ok
  BY <1>1, <1>2 DEF Store, RowType
<1>4. \A f \in Files : status'[f] = "IMPORTED" => status[f] = "IMPORTED"
  BY <1>1, <1>2 DEF Store, RowType
<1>5. ImportedWasConfirmed' /\ Requests'
  BY <1>3, <1>4 DEF Store, ConfirmInv, ImportedWasConfirmed, Requests, imports
<1>6. After(p) \notin {"store", "upsertWrite"}
  BY DEF After
<1>7. \A q \in Workers : pc'[q] \in {"upsertWrite", "store"} => pc'[q] = pc[q]
  BY <1>1, <1>6 DEF Store, Goto, LocalType
<1>8. \A q \in Workers : pc[q] = "upsertWrite" => file[q] \in Files
  BY DEF TypeInv, Shape, ShapeOf
<1>9. \A q \in Workers : Pending(q)'
  BY <1>3, <1>7, <1>8 DEF Store, Keep, ConfirmInv, Pending
<1> QED
  BY <1>5, <1>9 DEF ConfirmInv

(* Confirming adds the batch to those a synchronisation may run for. *)
LEMMA ConfirmConfirm ==
  ASSUME TypeInv, ConfirmInv, NEW b \in BatchIds, Confirm(b) \/ Reopen(b) PROVE ConfirmInv'
<1>1. SyncType
  BY TypeGroups DEF TypeInv
<1>2. UNCHANGED <<row, local>> /\ accepted \subseteq accepted'
  BY DEF Confirm, Reopen
<1>3. Requests'
  BY <1>1 DEF Confirm, Reopen, SyncType, ConfirmInv, Requests
<1>4. ImportedWasConfirmed'
  BY <1>2 DEF ConfirmInv, ImportedWasConfirmed, row
<1>5. \A p \in Workers : Pending(p)'
  BY <1>2 DEF ConfirmInv, Pending, row, local
<1> QED
  BY <1>3, <1>4, <1>5 DEF ConfirmInv

LEMMA ConfirmSync ==
  ASSUME TypeInv, ConfirmInv, NEW b \in BatchIds, Sync(b) \/ SyncCrash(b) PROVE ConfirmInv'
<1>1. RowType /\ SyncType
  BY TypeGroups DEF TypeInv
<1>2. b \in accepted /\ b # None
  BY PipelineAssumption
     DEF ConfirmInv, Requests, Sync, SyncRead, SyncLock, SyncFind, SyncWrite, SyncCrash
<1>3. UNCHANGED <<local, accepted>>
  BY DEF Sync, SyncRead, SyncLock, SyncFind, SyncWrite, SyncCrash, imports
<1>4. Requests'
  BY <1>1, <1>2, <1>3 DEF Sync, SyncRead, SyncLock, SyncFind, SyncWrite, SyncCrash, SyncDone,
                          SyncType, ConfirmInv, Requests
<1>5. CASE ~SyncWrite(b)
  <2>1. UNCHANGED row
    BY <1>5 DEF Sync, SyncRead, SyncLock, SyncFind, SyncCrash
  <2> QED
    BY <1>3, <1>4, <2>1 DEF ConfirmInv, ImportedWasConfirmed, Pending, row, local
<1>6. CASE SyncWrite(b)
  <2>1. \A f \in Files : \/ status'[f] = status[f] /\ link'[f].ok = link[f].ok
                         \/ status'[f] = "IMPORTED" /\ link'[f].ok = b
    BY <1>1, <1>6 DEF SyncWrite, RowType
  <2>2. ImportedWasConfirmed'
    BY <1>2, <1>3, <2>1 DEF ConfirmInv, ImportedWasConfirmed
  <2>3. \A p \in Workers : pc[p] = "upsertWrite" => file[p] \in Files
    BY DEF TypeInv, Shape, ShapeOf
  <2>4. \A p \in Workers : Pending(p)'
    BY <1>2, <1>3, <2>1, <2>3 DEF ConfirmInv, Pending, local
  <2> QED
    BY <1>4, <2>2, <2>4 DEF ConfirmInv
<1> QED
  BY <1>5, <1>6

(* The other steps touch neither status nor success nor confirmation. *)
LEMMA ConfirmOther ==
  ASSUME TypeInv, ConfirmInv, UNCHANGED <<status, link, accepted, local, syncs>>
  PROVE  ConfirmInv'
BY DEF ConfirmInv, ImportedWasConfirmed, Pending, Requests, local

LEMMA ConfirmNext == TypeInv /\ ConfirmInv /\ [Next]_vars => ConfirmInv'
<1> SUFFICES ASSUME TypeInv, ConfirmInv, [Next]_vars PROVE ConfirmInv'
  OBVIOUS
<1>1. ASSUME NEW p \in Pollers, Scan(p) PROVE ConfirmInv'
  <2>1. CASE UpsertRead(p)
    BY <2>1, ConfirmUpsertRead
  <2>2. CASE UpsertWrite(p)
    BY <2>2, ConfirmUpsertWrite
  <2>3. CASE ListFolder(p)
    BY <2>3, ConfirmOther DEF ListFolder, row, imports
  <2>4. CASE ~UpsertRead(p) /\ ~UpsertWrite(p) /\ ~ListFolder(p)
    BY <1>1, <2>4, QuietScan, ConfirmQuiet DEF Workers
  <2> QED
    BY <2>1, <2>2, <2>3, <2>4
<1>2. ASSUME NEW p \in Workers, Work(p) PROVE ConfirmInv'
  <2>1. CASE TransitionRead(p)
    BY <2>1, ConfirmTransitionRead
  <2>2. CASE Store(p)
    BY <2>2, ConfirmStore
  <2>3. CASE ~TransitionRead(p) /\ ~Store(p)
    BY <1>2, <2>3, QuietWork, ConfirmQuiet
  <2> QED
    BY <2>1, <2>2, <2>3
<1>3. ASSUME NEW b \in BatchIds, Sync(b) \/ SyncCrash(b) PROVE ConfirmInv'
  BY <1>3, ConfirmSync
<1>4. ASSUME Human PROVE ConfirmInv'
  <2>1. ASSUME NEW p \in Clis, NEW f \in Files, CliStart(p, f) PROVE ConfirmInv'
    BY <2>1, QuietStart, ConfirmQuiet DEF Workers
  <2>2. ASSUME NEW p \in Operators, NEW f \in Files, ResetStart(p, f) PROVE ConfirmInv'
    BY <2>2, QuietStart, ConfirmQuiet DEF Workers
  <2>3. ASSUME NEW b \in BatchIds, Confirm(b) \/ Reopen(b) PROVE ConfirmInv'
    BY <2>3, ConfirmConfirm
  <2>4. ASSUME NEW f \in Files, DriveEdit(f) \/ DriveMove(f) \/ DriveRename(f)
        PROVE  ConfirmInv'
    BY <2>4, ConfirmOther DEF DriveEdit, DriveMove, DriveRename, row, imports
  <2>5. ASSUME NEW g \in Folders, SetMapping(g) PROVE ConfirmInv'
    BY <2>5, ConfirmOther DEF SetMapping, row, imports
  <2> QED
    BY <1>4, <2>1, <2>2, <2>3, <2>4, <2>5 DEF Human
<1>5. ASSUME NEW f \in Files, RetryDue(f) PROVE ConfirmInv'
  BY <1>5, ConfirmOther DEF RetryDue, imports
<1>6. ASSUME NEW p \in Workers, Crash(p) PROVE ConfirmInv'
  BY <1>6, QuietCrash, ConfirmQuiet
<1>7. CASE UNCHANGED vars
  BY <1>7, ConfirmOther DEF vars, row, imports
<1> QED
  BY <1>1, <1>2, <1>3, <1>4, <1>5, <1>6, <1>7 DEF Next, Failures

(* Whatever the schedule, the crashes and the mode, a file that reads      *)
(* IMPORTED has a last success, and every last success is a batch a person *)
(* confirmed.                                                              *)
THEOREM ImportedConfirmed == Spec => []ImportedWasConfirmed
<1>1. ConfirmInv => ImportedWasConfirmed
  BY DEF ConfirmInv
<1> QED
  BY <1>1, TypeCorrect, ConfirmInit, ConfirmNext, PTL DEF Spec

-----------------------------------------------------------------------------
(* Who holds a file lock.  A process outside withAdvisoryLock holds none,  *)
(* and so does a scan that works without the lock because automatic        *)
(* execution is on; one inside it holds the lock of its file and no other. *)

ScanTransitions == {"toDetected", "toDownloading", "toReady"}

Outside(p) ==
  \/ pc[p] \in {"off", "next", "enter", "xlock", "resetLock"}
  \/ /\ AutoExecution
     /\ \/ pc[p] \in {"upsert", "upsertWrite", "fetch", "dispatch"} \cup ScanTransitions
        \/ pc[p] = "store" /\ step[p] \in ScanTransitions

(* p executes a file: it has read its row, or is about to. *)
HasSnap(p) ==
  \/ pc[p] \in {"xlist", "xfetch", "xdup", "xfind", "xpreview", "toImporting"}
  \/ pc[p] = "store" /\ step[p] = "toImporting"

Executing(p) == pc[p] = "xread" \/ HasSnap(p)

HolderOf(p) ==
  /\ \A f \in Files : fileLock[f] = p => file[p] = f /\ ~Outside(p)
  /\ Executing(p) => fileLock[file[p]] = p

SyncHolderOf(b) ==
  /\ syncs[b].pc # "off" => batches[b] # None
  /\ \A f \in Files : fileLock[f] = b => syncs[b].pc \in {"find", "write"} /\ batches[b].file = f

HolderInv == /\ \A p \in Workers : HolderOf(p)
             /\ \A b \in BatchIds : SyncHolderOf(b)

LEMMA HolderInit == Init => HolderInv
BY PipelineAssumption
   DEF Init, HolderInv, HolderOf, SyncHolderOf, Outside, Executing, HasSnap, Workers

(* A step of q takes only free locks and releases only its own. *)
OwnLocks(q) ==
  \A f \in Files : fileLock'[f] = fileLock[f] \/ {fileLock[f], fileLock'[f]} \subseteq {None, q}

(* Where a step of a process that works on a row leads. *)
LEMMA WorkLeads ==
  ASSUME TypeInv, NEW p \in Workers, Work(p)
  PROVE  /\ OnlyLocals(p) /\ OwnLocks(p)
         /\ TryLock(p) \/ Leave(p) \/ fileLock' = fileLock
         /\ Leave(p) \/ file' = file
         /\ Executing(p)' => TryLock(p) \/ Executing(p)
         /\ HasSnap(p)' => ExecRead(p) \/ (HasSnap(p) /\ loc'[p].snap = loc[p].snap)
         /\ pc'[p] = "xpreview" => \/ ExecFind(p) /\ loc' = loc
                                   \/ loc'[p].snap.family # "HEAVEN"
         /\ Outside(p)' => Outside(p) \/ Leave(p)
<1>1. LocalType /\ LockType /\ ShapeOf(p) /\ loc[p] \in Local
  BY TypeGroups DEF TypeInv, Shape, LocalType
<1>2. CASE TryLock(p)
  <2>1. OwnLocks(p)
    BY <1>1, <1>2 DEF TryLock, LockType, OwnLocks
  <2>2. pc'[p] \in {"xread", "resetRead", "leave"}
    BY <1>1, <1>2 DEF TryLock, Goto, LocalType
  <2> QED
    BY <1>1, <1>2, <2>1, <2>2 DEF TryLock, Goto, Keep, LocalType, OnlyLocals, Executing, HasSnap,
                                  Outside, ScanTransitions
<1>3. CASE Leave(p)
  <2>1. OwnLocks(p)
    BY <1>1, <1>3 DEF Leave, LockType, OwnLocks
  <2>2. OnlyLocals(p) /\ pc'[p] \in {"next", "off"}
    BY <1>1, <1>3 DEF Leave, Goto, LocalType, OnlyLocals
  <2> QED
    BY <1>3, <2>1, <2>2 DEF Executing, HasSnap
<1>4. CASE ResetRead(p) \/ FailCount(p)
  <2>1. OnlyLocals(p) /\ UNCHANGED <<file, fileLock>> /\ pc'[p] \in {"toReset", "toFailed", "leave"}
    BY <1>1, <1>4 DEF ResetRead, FailCount, Goto, Keep, SetLoc, LocalType, OnlyLocals, locks
  <2> QED
    BY <2>1 DEF OwnLocks, Executing, HasSnap, Outside, ScanTransitions
<1>5. CASE ExecRead(p)
  <2>1. OnlyLocals(p) /\ UNCHANGED <<file, fileLock>> /\ pc'[p] \in {"xlist", "leave"}
    BY <1>1, <1>5 DEF ExecRead, Goto, Keep, SetLoc, LocalType, OnlyLocals, locks
  <2>2. Executing(p)
    BY <1>5 DEF ExecRead, Executing
  <2> QED
    BY <1>5, <2>1, <2>2 DEF OwnLocks, Outside, ScanTransitions
<1>6. CASE ExecList(p) \/ ExecFetch(p) \/ ExecDuplicate(p) \/ ExecFind(p) \/ ExecPreview(p)
  <2>1. /\ OnlyLocals(p) /\ UNCHANGED <<file, fileLock>> /\ loc'[p].snap = loc[p].snap
        /\ pc'[p] \in {"xfetch", "xdup", "xpreview", "toImporting", "toReview", "failCount", "leave"}
    BY <1>1, <1>6 DEF ExecList, ExecFetch, ExecDuplicate, ExecFind, ExecPreview, Goto, Keep, SetLoc,
                      LocalType, Local, OnlyLocals, locks
  <2>2. HasSnap(p) /\ Executing(p)
    BY <1>6 DEF ExecList, ExecFetch, ExecDuplicate, ExecFind, ExecPreview, HasSnap, Executing
  <2>3. pc'[p] = "xpreview" => \/ ExecFind(p) /\ loc' = loc
                               \/ loc'[p].snap.family # "HEAVEN"
    BY <1>1, <1>6, <2>1 DEF ExecList, ExecFetch, ExecDuplicate, ExecFind, ExecPreview, Goto, Keep,
                            LocalType
  <2> QED
    BY <2>1, <2>2, <2>3 DEF OwnLocks, Outside, ScanTransitions
<1>7. CASE TransitionRead(p)
  <2>1. OnlyLocals(p) /\ UNCHANGED <<file, loc, fileLock>> /\ pc[p] \in Transitions
    BY <1>1, <1>7 DEF TransitionRead, Goto, Keep, LocalType, OnlyLocals, locks
  <2>2. \/ pc'[p] = "store" /\ step'[p] = pc[p]
        \/ pc'[p] \in {"failCount", "leave"}
    BY <1>1, <1>7 DEF TransitionRead, Caught, Goto, LocalType
  <2> QED
    BY <2>1, <2>2 DEF OwnLocks, Executing, HasSnap, Outside, ScanTransitions
<1>8. CASE Store(p)
  <2>1. OnlyLocals(p) /\ UNCHANGED <<file, loc, step, fileLock>> /\ pc[p] = "store"
    BY <1>1, <1>8 DEF Store, Goto, Keep, LocalType, OnlyLocals, locks
  <2>2. \/ step[p] = "toDetected" /\ pc'[p] = "toDownloading"
        \/ step[p] = "toDownloading" /\ pc'[p] = "fetch"
        \/ step[p] = "toReady" /\ pc'[p] = "dispatch"
        \/ /\ step[p] = "toImporting" /\ pc'[p] \in {"xfetch", "xpreview", "xfind"}
           /\ pc'[p] = "xpreview" => loc[p].snap.family = "TOWN"
        \/ pc'[p] = "leave"
    BY <1>1, <1>8 DEF Store, After, Goto, LocalType
  <2> QED
    BY <2>1, <2>2 DEF OwnLocks, Executing, HasSnap, Outside, ScanTransitions
<1> QED
  BY <1>2, <1>3, <1>4, <1>5, <1>6, <1>7, <1>8 DEF Work

(* Where a step of the scan leads: to no executor. *)
LEMMA ScanLeads ==
  ASSUME TypeInv, NEW p \in Pollers, Scan(p), ~ListFolder(p)
  PROVE  /\ OnlyLocals(p) /\ OwnLocks(p) /\ UNCHANGED <<batches, syncs>>
         /\ ~Executing(p)' /\ ~HasSnap(p)' /\ pc'[p] # "xpreview"
         /\ \/ pc[p] \in {"off", "next"} /\ fileLock' = fileLock
            \/ EnterFile(p)
            \/ UNCHANGED <<file, fileLock>>
         /\ EnterFile(p) \/ (Outside(p)' => Outside(p))
<1>1. p \in Workers /\ LocalType /\ LockType
  BY TypeGroups DEF TypeInv, Workers
<1>2. CASE PollStart(p) \/ PollEnd(p)
  <2>1. OnlyLocals(p) /\ UNCHANGED <<batches, syncs, fileLock>> /\ pc'[p] \in {"next", "off"}
    BY <1>1, <1>2 DEF PollStart, PollEnd, Goto, Keep, LocalType, OnlyLocals, imports
  <2>2. pc[p] \in {"off", "next"}
    BY <1>2 DEF PollStart, PollEnd
  <2> QED
    BY <2>1, <2>2 DEF OwnLocks, Executing, HasSnap, Outside
<1>3. CASE PickFile(p)
  <2>1. /\ pc[p] = "next" /\ Goto(p, "enter") /\ UNCHANGED <<batches, syncs, fileLock>>
        /\ OnlyLocals(p)
    BY <1>1, <1>3 DEF PickFile, Goto, LocalType, OnlyLocals, imports, locks
  <2>2. pc'[p] = "enter"
    BY <1>1, <2>1 DEF Goto, LocalType
  <2> QED
    BY <2>1, <2>2 DEF OwnLocks, Executing, HasSnap, Outside
<1>4. CASE EnterFile(p)
  <2>1. OnlyLocals(p) /\ UNCHANGED <<batches, syncs>> /\ pc'[p] \in {"upsert", "leave"}
    BY <1>1, <1>4 DEF EnterFile, Goto, Keep, LocalType, OnlyLocals, imports
  <2>2. OwnLocks(p)
    BY <1>1, <1>4 DEF EnterFile, LockType, OwnLocks
  <2> QED
    BY <1>4, <2>1, <2>2 DEF Executing, HasSnap
<1>5. CASE UpsertRead(p)
  <2>1. /\ OnlyLocals(p) /\ UNCHANGED <<batches, syncs, file, fileLock>>
        /\ pc[p] = "upsert" /\ pc'[p] = "upsertWrite"
    BY <1>1, <1>5 DEF UpsertRead, Goto, LocalType, OnlyLocals, imports, locks
  <2> QED
    BY <2>1 DEF OwnLocks, Executing, HasSnap, Outside
<1>6. CASE UpsertWrite(p)
  <2>1. /\ OnlyLocals(p) /\ UNCHANGED <<batches, syncs, file, fileLock>>
        /\ pc[p] = "upsertWrite" /\ pc'[p] \in {"toDetected", "toDownloading", "leave"}
    BY <1>1, <1>6 DEF UpsertWrite, Goto, Keep, LocalType, OnlyLocals, imports, locks
  <2> QED
    BY <2>1 DEF OwnLocks, Executing, HasSnap, Outside
<1>7. CASE Fetch(p)
  <2>1. /\ OnlyLocals(p) /\ UNCHANGED <<batches, syncs, file, fileLock>>
        /\ pc[p] = "fetch" /\ pc'[p] \in {"toReady", "failCount"}
    BY <1>1, <1>7 DEF Fetch, Goto, Keep, SetLoc, LocalType, OnlyLocals, imports, locks
  <2> QED
    BY <2>1 DEF OwnLocks, Executing, HasSnap, Outside
<1>8. CASE Dispatch(p)
  <2>1. /\ OnlyLocals(p) /\ UNCHANGED <<batches, syncs, file, fileLock>>
        /\ pc[p] = "dispatch"
        /\ \/ AutoExecution /\ pc'[p] = "xlock"
           \/ pc'[p] = "leave"
    BY <1>1, <1>8 DEF Dispatch, Goto, Keep, SetLoc, LocalType, OnlyLocals, imports, locks
  <2> QED
    BY <2>1 DEF OwnLocks, Executing, HasSnap, Outside
<1> QED
  BY <1>2, <1>3, <1>4, <1>5, <1>6, <1>7, <1>8 DEF Scan

(* A command begins, a process dies. *)
LEMMA StartLeads ==
  ASSUME TypeInv, NEW p \in Workers, NEW f \in Files, CliStart(p, f) \/ ResetStart(p, f)
  PROVE  /\ OnlyLocals(p) /\ UNCHANGED <<batches, syncs, fileLock>>
         /\ pc[p] = "off" /\ pc'[p] \in {"xlock", "resetLock"}
<1>1. LocalType
  BY TypeGroups DEF TypeInv
<1> QED
  BY <1>1 DEF CliStart, ResetStart, Goto, LocalType, OnlyLocals, imports, locks

LEMMA CrashLeads ==
  ASSUME TypeInv, NEW p \in Workers, Crash(p)
  PROVE  /\ OnlyLocals(p) /\ OwnLocks(p) /\ UNCHANGED <<batches, syncs>> /\ pc'[p] = "off"
         /\ \A f \in Files : fileLock'[f] # p
<1>1. LocalType /\ LockType /\ p # None
  BY TypeGroups, PipelineAssumption DEF TypeInv, Workers
<1> QED
  BY <1>1 DEF Crash, Unlock, Goto, LocalType, LockType, OnlyLocals, OwnLocks, imports

(* Steps of one process leave what the others hold. *)
LEMMA HolderOthers ==
  ASSUME TypeInv, HolderInv, NEW p \in Workers, OnlyLocals(p), OwnLocks(p)
  PROVE  \A q \in Workers \ {p} : HolderOf(q)'
<1> SUFFICES ASSUME NEW q \in Workers, q # p PROVE HolderOf(q)'
  OBVIOUS
<1>1. q # None
  BY PipelineAssumption DEF Workers
<1>2. \A f \in Files : fileLock'[f] = q <=> fileLock[f] = q
  BY <1>1 DEF OwnLocks
<1>3. Executing(q) => file[q] \in Files
  BY DEF TypeInv, Shape, ShapeOf, Executing, HasSnap
<1>4. /\ pc'[q] = pc[q] /\ step'[q] = step[q] /\ file'[q] = file[q]
      /\ Outside(q)' = Outside(q) /\ Executing(q)' = Executing(q)
  BY DEF OnlyLocals, Outside, Executing, HasSnap
<1> QED
  BY <1>2, <1>3, <1>4 DEF HolderInv, HolderOf

LEMMA SyncHolders ==
  ASSUME TypeInv, HolderInv, NEW p \in Workers, OwnLocks(p), UNCHANGED syncs,
         \A b \in BatchIds : batches[b] # None =>
            batches'[b] # None /\ batches'[b].file = batches[b].file
  PROVE  \A b \in BatchIds : SyncHolderOf(b)'
<1> SUFFICES ASSUME NEW b \in BatchIds PROVE SyncHolderOf(b)'
  OBVIOUS
<1>1. b # None /\ b # p
  BY PipelineAssumption DEF Workers
<1>2. \A f \in Files : fileLock'[f] = b <=> fileLock[f] = b
  BY <1>1 DEF OwnLocks
<1> QED
  BY <1>2 DEF HolderInv, SyncHolderOf

LEMMA HolderWork ==
  ASSUME TypeInv, HolderInv, NEW p \in Workers, Work(p) PROVE HolderInv'
<1>1. /\ LocalType /\ LockType /\ ImportType /\ ShapeOf(p) /\ HolderOf(p)
      /\ OnlyLocals(p) /\ OwnLocks(p) /\ p # None
  BY TypeGroups, WorkLeads, PipelineAssumption DEF TypeInv, Shape, HolderInv, Workers
<1>2. HolderOf(p)'
  <2>1. CASE Leave(p)
    <3>1. pc'[p] \in {"next", "off"} /\ \A f \in Files : fileLock'[f] # p
      BY <1>1, <2>1 DEF Leave, Goto, LocalType
    <3> QED
      BY <3>1 DEF HolderOf, Executing, HasSnap
  <2>2. CASE TryLock(p)
    <3>1. file' = file /\ file[p] \in Files /\ \A f \in Files : fileLock[f] # p
      BY <1>1, <2>2 DEF TryLock, Keep, ShapeOf, HolderOf, Outside
    <3>2. \/ fileLock' = fileLock /\ pc'[p] = "leave"
          \/ /\ fileLock' = [fileLock EXCEPT ![file[p]] = p]
             /\ pc'[p] \in {"xread", "resetRead"}
      BY <1>1, <2>2 DEF TryLock, Goto, LocalType
    <3> QED
      BY <1>1, <3>1, <3>2 DEF HolderOf, LockType, Executing, HasSnap, Outside, ScanTransitions
  <2>3. CASE ~Leave(p) /\ ~TryLock(p)
    BY <1>1, <2>3, WorkLeads DEF HolderOf
  <2> QED
    BY <2>1, <2>2, <2>3
<1>3. /\ UNCHANGED syncs
      /\ \A b \in BatchIds : batches[b] # None => batches'[b] = batches[b]
  <2>1. CASE ExecPreview(p)
    BY <1>1, <2>1 DEF ExecPreview, ImportType
  <2>2. CASE ~ExecPreview(p)
    BY <2>2 DEF Work, TryLock, ExecRead, ExecList, ExecFetch, ExecDuplicate, ExecFind, ResetRead,
                TransitionRead, Store, FailCount, Leave, imports
  <2> QED
    BY <2>1, <2>2
<1>4. \A b \in BatchIds : SyncHolderOf(b)'
  BY <1>1, <1>3, SyncHolders
<1> QED
  BY <1>1, <1>2, <1>4, HolderOthers DEF HolderInv

LEMMA HolderScan ==
  ASSUME TypeInv, HolderInv, NEW p \in Pollers, Scan(p), ~ListFolder(p) PROVE HolderInv'
<1>1. /\ p \in Workers /\ LocalType /\ LockType /\ ShapeOf(p) /\ HolderOf(p) /\ p # None
      /\ OnlyLocals(p) /\ OwnLocks(p) /\ UNCHANGED <<batches, syncs>> /\ ~Executing(p)'
  BY TypeGroups, ScanLeads, PipelineAssumption DEF TypeInv, Shape, HolderInv, Workers
<1>2. HolderOf(p)'
  <2>1. CASE EnterFile(p)
    <3>1. file' = file /\ file[p] \in Files /\ \A f \in Files : fileLock[f] # p
      BY <1>1, <2>1 DEF EnterFile, Keep, ShapeOf, HolderOf, Outside
    <3>2. \/ fileLock' = fileLock
          \/ /\ fileLock' = [fileLock EXCEPT ![file[p]] = p]
             /\ ~AutoExecution /\ pc'[p] = "upsert"
      BY <1>1, <2>1 DEF EnterFile, Goto, LocalType
    <3> QED
      BY <1>1, <3>1, <3>2 DEF HolderOf, LockType, Outside
  <2>2. CASE pc[p] \in {"off", "next"} /\ fileLock' = fileLock
    BY <1>1, <2>2 DEF HolderOf, Outside
  <2>3. CASE ~EnterFile(p) /\ UNCHANGED <<file, fileLock>>
    BY <1>1, <2>3, ScanLeads DEF HolderOf
  <2> QED
    BY <2>1, <2>2, <2>3, ScanLeads
<1> QED
  BY <1>1, <1>2, HolderOthers, SyncHolders DEF HolderInv

(* A step of nobody's locals and locks. *)
LEMMA HolderOther ==
  ASSUME HolderInv, UNCHANGED <<local, fileLock>>,
         \A b \in BatchIds :
           /\ batches[b] # None => batches'[b] # None /\ batches'[b].file = batches[b].file
           /\ syncs[b].pc \in {"find", "write"} => syncs'[b].pc = syncs[b].pc
           /\ syncs'[b].pc # "off" => batches[b] # None
  PROVE  HolderInv'
<1>1. \A p \in Workers : HolderOf(p)'
  BY DEF HolderInv, HolderOf, Outside, Executing, HasSnap, local
<1>2. \A b \in BatchIds : SyncHolderOf(b)'
  BY DEF HolderInv, SyncHolderOf
<1> QED
  BY <1>1, <1>2 DEF HolderInv

LEMMA HolderSync ==
  ASSUME TypeInv, HolderInv, NEW b \in BatchIds, Sync(b) \/ SyncCrash(b) PROVE HolderInv'
<1>1. LockType /\ SyncType /\ b # None
  BY TypeGroups, PipelineAssumption DEF TypeInv
<1>2. UNCHANGED <<local, batches>> /\ \A c \in BatchIds \ {b} : syncs'[c] = syncs[c]
  BY <1>1 DEF Sync, SyncRead, SyncLock, SyncFind, SyncWrite, SyncCrash, SyncDone, SyncType, imports
<1>3. OwnLocks(b)
  BY <1>1 DEF Sync, SyncRead, SyncLock, SyncFind, SyncWrite, SyncCrash, Unlock, LockType, OwnLocks,
              locks
<1>4. ASSUME NEW p \in Workers PROVE HolderOf(p)'
  <2>1. p # None /\ p # b
    BY PipelineAssumption DEF Workers
  <2>2. Executing(p) => file[p] \in Files
    BY DEF TypeInv, Shape, ShapeOf, Executing, HasSnap
  <2>3. \A f \in Files : fileLock'[f] = p <=> fileLock[f] = p
    BY <1>3, <2>1 DEF OwnLocks
  <2>4. file' = file /\ Outside(p)' = Outside(p) /\ Executing(p)' = Executing(p)
    BY <1>2 DEF Outside, Executing, HasSnap, local
  <2> QED
    BY <2>2, <2>3, <2>4 DEF HolderInv, HolderOf
<1>5. ASSUME NEW c \in BatchIds \ {b} PROVE SyncHolderOf(c)'
  <2>1. c # None
    BY PipelineAssumption
  <2>2. \A f \in Files : fileLock'[f] = c <=> fileLock[f] = c
    BY <1>3, <1>5, <2>1 DEF OwnLocks
  <2> QED
    BY <1>2, <2>2 DEF HolderInv, SyncHolderOf
<1>6. SyncHolderOf(b)'
  <2>1. SyncHolderOf(b) /\ syncs[b].pc # "off"
    BY DEF HolderInv, Sync, SyncRead, SyncLock, SyncFind, SyncWrite, SyncCrash
  <2>2. CASE SyncRead(b)
    <3>1. fileLock' = fileLock /\ syncs[b].pc = "read"
      BY <2>2 DEF SyncRead, locks
    <3> QED
      BY <1>2, <2>1, <3>1 DEF SyncHolderOf
  <2>3. CASE SyncLock(b)
    <3>1. syncs[b].pc = "lock" /\ \A f \in Files : fileLock[f] # b
      BY <2>1, <2>3 DEF SyncLock, SyncHolderOf
    <3>2. \/ fileLock' = fileLock
          \/ fileLock' = [fileLock EXCEPT ![batches[b].file] = b] /\ syncs'[b].pc = "find"
      BY <1>1, <2>3 DEF SyncLock, SyncType
    <3> QED
      BY <1>1, <1>2, <2>1, <3>1, <3>2 DEF SyncHolderOf, LockType
  <2>4. CASE SyncFind(b) \/ SyncWrite(b) \/ SyncCrash(b)
    <3>1. \/ \A f \in Files : fileLock'[f] # b
          \/ fileLock' = fileLock /\ syncs'[b].pc = "write"
      BY <1>1, <2>4 DEF SyncFind, SyncWrite, SyncCrash, Unlock, SyncType
    <3> QED
      BY <1>2, <2>1, <3>1 DEF SyncHolderOf
  <2> QED
    BY <2>2, <2>3, <2>4 DEF Sync
<1> QED
  BY <1>4, <1>5, <1>6 DEF HolderInv

(* What a person or the environment does to a batch. *)
LEMMA ConfirmLeads ==
  ASSUME TypeInv, NEW b \in BatchIds, Confirm(b) \/ Reopen(b)
  PROVE  \E s \in {"PREVIEW", "CANCELLED"} \cup Completed :
           /\ batches[b] # None /\ batches'[b] # None
           /\ batches'[b].file = batches[b].file /\ batches'[b].mtime = batches[b].mtime
           /\ batches'[b].sha = batches[b].sha /\ batches'[b].family = batches[b].family
           /\ batches'[b].status = s
           /\ batches[b].status = "CANCELLED" => s = "CANCELLED"
           /\ \A c \in BatchIds \ {b} : batches'[c] = batches[c]
<1>1. ImportType
  BY TypeGroups DEF TypeInv
<1>2. PICK s \in {"PREVIEW", "CANCELLED"} \cup Completed :
        /\ batches' = [batches EXCEPT ![b].status = s]
        /\ batches[b] # None
        /\ batches[b].status = "CANCELLED" => s = "CANCELLED"
  BY DEF Confirm, Reopen, Completed
<1> DEFINE r == [batches[b] EXCEPT !.status = s]
<1>3. batches[b] \in Batch
  BY <1>1, <1>2 DEF ImportType
<1>4. r \in Batch
  BY <1>2, <1>3 DEF Batch
<1>5. /\ r.file = batches[b].file /\ r.mtime = batches[b].mtime
      /\ r.sha = batches[b].sha /\ r.family = batches[b].family /\ r.status = s
  BY <1>3 DEF Batch
<1>6. batches' = [batches EXCEPT ![b] = r]
  BY <1>2
<1> HIDE DEF r
<1>7. batches'[b] = r /\ \A c \in BatchIds \ {b} : batches'[c] = batches[c]
  BY <1>1, <1>6 DEF ImportType
<1> QED
  BY <1>2, <1>4, <1>5, <1>7, NoneIsNoBatch

LEMMA HolderNext == TypeInv /\ HolderInv /\ [Next]_vars => HolderInv'
<1> SUFFICES ASSUME TypeInv, HolderInv, [Next]_vars PROVE HolderInv'
  OBVIOUS
<1>1. ASSUME NEW p \in Pollers, Scan(p) PROVE HolderInv'
  <2>1. CASE ListFolder(p)
    BY <2>1, HolderOther DEF ListFolder, HolderInv, SyncHolderOf, imports, locks
  <2> QED
    BY <1>1, <2>1, HolderScan
<1>2. ASSUME NEW p \in Workers, NEW f \in Files, CliStart(p, f) \/ ResetStart(p, f)
      PROVE  HolderInv'
  <2>1. /\ OnlyLocals(p) /\ UNCHANGED <<batches, syncs, fileLock>>
        /\ pc[p] = "off" /\ pc'[p] \in {"xlock", "resetLock"}
    BY <1>2, StartLeads
  <2>2. OwnLocks(p)
    BY <2>1 DEF OwnLocks
  <2>3. HolderOf(p)'
    BY <2>1 DEF HolderInv, HolderOf, Outside, Executing, HasSnap
  <2> QED
    BY <2>1, <2>2, <2>3, HolderOthers, SyncHolders DEF HolderInv
<1>3. ASSUME NEW b \in BatchIds, Confirm(b) \/ Reopen(b) PROVE HolderInv'
  <2>1. UNCHANGED <<local, fileLock>> /\ SyncType
    BY <1>3, TypeGroups DEF TypeInv, Confirm, Reopen, locks
  <2>2. /\ batches[b] # None
        /\ \A c \in BatchIds : batches[c] # None =>
              batches'[c] # None /\ batches'[c].file = batches[c].file
    BY <1>3, ConfirmLeads
  <2>3. \A c \in BatchIds : \/ syncs'[c] = syncs[c]
                            \/ c = b /\ syncs[c].pc = "off"
    BY <1>3, <2>1 DEF Confirm, Reopen, SyncType
  <2> QED
    BY <2>1, <2>2, <2>3, HolderOther DEF HolderInv, SyncHolderOf
<1>4. ASSUME NEW p \in Workers, Crash(p) PROVE HolderInv'
  <2>1. /\ OnlyLocals(p) /\ OwnLocks(p) /\ UNCHANGED <<batches, syncs>> /\ pc'[p] = "off"
        /\ \A f \in Files : fileLock'[f] # p
    BY <1>4, CrashLeads
  <2>2. HolderOf(p)'
    BY <2>1 DEF HolderOf, Executing, HasSnap
  <2> QED
    BY <2>1, <2>2, HolderOthers, SyncHolders DEF HolderInv
<1>5. ASSUME UNCHANGED <<local, fileLock, batches, syncs>> PROVE HolderInv'
  BY <1>5, HolderOther DEF HolderInv, SyncHolderOf
<1>6. ASSUME Human PROVE HolderInv'
  <2>1. ASSUME NEW f \in Files, DriveEdit(f) \/ DriveMove(f) \/ DriveRename(f)
        PROVE  HolderInv'
    BY <1>5, <2>1 DEF DriveEdit, DriveMove, DriveRename, imports, locks
  <2>2. ASSUME NEW g \in Folders, SetMapping(g) PROVE HolderInv'
    BY <1>5, <2>2 DEF SetMapping, imports, locks
  <2> QED
    BY <1>2, <1>3, <1>6, <2>1, <2>2 DEF Human, Workers
<1>7. ASSUME NEW f \in Files, RetryDue(f) PROVE HolderInv'
  BY <1>5, <1>7 DEF RetryDue, imports, locks
<1>8. CASE UNCHANGED vars
  BY <1>5, <1>8 DEF vars, imports, locks
<1> QED
  BY <1>1, <1>3, <1>4, <1>6, <1>7, <1>8, HolderWork, HolderSync DEF Next, Failures

(* No file lock outlives its holder: whatever the mode, the crashes and    *)
(* the schedule, a process that holds the lock of a file is at work on     *)
(* that file inside withAdvisoryLock, and a synchronisation that holds one *)
(* holds the lock of the file of its batch.  What keeps a file locked is   *)
(* therefore always a process that is running (advisory-lock.ts).          *)
LocksAreHeld ==
  \A f \in Files :
    /\ \A p \in Workers : fileLock[f] = p => file[p] = f /\ ~Outside(p)
    /\ \A b \in BatchIds : fileLock[f] = b =>
         syncs[b].pc \in {"find", "write"} /\ batches[b].file = f

THEOREM LocksHaveHolders == Spec => []LocksAreHeld
<1>1. HolderInv => LocksAreHeld
  BY DEF HolderInv, HolderOf, SyncHolderOf, LocksAreHeld
<1> QED
  BY <1>1, TypeCorrect, HolderInit, HolderNext, PTL DEF Spec

-----------------------------------------------------------------------------
(* Heaven looks for a batch to hand back and makes a new one in two steps. *)
(* The lock of the file covers both, so that what was not found is still   *)
(* not there when the batch is made, and a batch made before a crash is    *)
(* found by the next execution.                                            *)

(* b is a preview or an import by Heaven of content c of file f. *)
HeavenBatch(b, f, c) ==
  /\ batches[b] # None /\ batches[b].status # "CANCELLED" /\ batches[b].family = "HEAVEN"
  /\ batches[b].file = f /\ batches[b].sha = c

(* What an executor did not find is still not there. *)
FoundNone(p) ==
  pc[p] = "xpreview" /\ loc[p].snap.family = "HEAVEN" =>
    \A b \in BatchIds : ~HeavenBatch(b, file[p], loc[p].got)

(* No two Heaven batches that are not cancelled are of one content of one  *)
(* file, whichever of its modification times they record.                  *)
HeavenUnique ==
  \A b, c \in BatchIds :
    HeavenBatch(b, batches[b].file, batches[b].sha)
    /\ HeavenBatch(c, batches[b].file, batches[b].sha) => b = c

HeavenInv == HeavenUnique /\ \A p \in Workers : FoundNone(p)

LEMMA HeavenInit == Init => HeavenInv
BY DEF Init, HeavenInv, HeavenUnique, HeavenBatch, FoundNone

(* A step of p that leaves the batches alone. *)
LEMMA HeavenQuiet ==
  ASSUME HeavenInv, NEW p \in Workers, OnlyLocals(p), UNCHANGED batches, FoundNone(p)'
  PROVE  HeavenInv'
<1>1. HeavenUnique'
  BY DEF HeavenInv, HeavenUnique, HeavenBatch
<1>2. \A q \in Workers \ {p} : FoundNone(q)'
  BY DEF HeavenInv, FoundNone, HeavenBatch, OnlyLocals
<1> QED
  BY <1>1, <1>2 DEF HeavenInv

(* A step that at most cancels a batch or completes it. *)
LEMMA HeavenOther ==
  ASSUME HeavenInv, UNCHANGED local,
         \A b \in BatchIds :
           batches'[b] # None =>
             /\ batches[b] # None
             /\ batches'[b].file = batches[b].file /\ batches'[b].sha = batches[b].sha
             /\ batches'[b].family = batches[b].family
             /\ batches[b].status = "CANCELLED" => batches'[b].status = "CANCELLED"
  PROVE  HeavenInv'
<1>1. HeavenUnique'
  BY DEF HeavenInv, HeavenUnique, HeavenBatch
<1>2. \A q \in Workers : FoundNone(q)'
  BY DEF HeavenInv, FoundNone, HeavenBatch, local
<1> QED
  BY <1>1, <1>2 DEF HeavenInv

(* Looking finds every batch that is not cancelled. *)
LEMMA HeavenFind ==
  ASSUME TypeInv, NEW p \in Workers, ExecFind(p), loc[p].snap.family = "HEAVEN",
         pc'[p] = "xpreview", NEW b \in BatchIds
  PROVE  ~HeavenBatch(b, file[p], loc[p].got)
<1>1. ImportType /\ LocalType
  BY TypeGroups DEF TypeInv
<1>2. Reusable("HEAVEN", loc[p].got) = {}
  BY <1>1 DEF ExecFind, Goto, LocalType
<1>3. /\ Matching("HEAVEN", loc[p].got, Completed) = {}
      /\ Matching("HEAVEN", loc[p].got, {"PREVIEW"}) = {}
  BY <1>2 DEF Reusable
<1>4. batches[b] # None => batches[b].status \in {"PREVIEW", "CANCELLED"} \cup Completed
  BY <1>1 DEF ImportType, Batch
<1> QED
  BY <1>3, <1>4 DEF Matching, HeavenBatch

(* The new batch is the only one of its content of its file, and no other  *)
(* executor of that file is waiting to make one.                           *)
LEMMA HeavenMade ==
  ASSUME TypeInv, HolderInv, HeavenInv, NEW p \in Workers, ExecPreview(p) PROVE HeavenInv'
<1>1. ImportType /\ LocalType /\ LockType /\ HolderOf(p) /\ OnlyLocals(p)
  BY TypeGroups, WorkLeads DEF TypeInv, HolderInv, Work
<1>2. pc[p] = "xpreview" /\ pc'[p] \in {"toReview", "failCount"}
  BY <1>1 DEF ExecPreview, Goto, LocalType
<1>3. FoundNone(p)'
  BY <1>2 DEF FoundNone
<1>4. CASE UNCHANGED batches
  BY <1>1, <1>3, <1>4, HeavenQuiet
<1> DEFINE new == [file |-> file[p], mtime |-> loc[p].snap.mtime, sha |-> loc[p].got,
                   family |-> loc[p].snap.family, status |-> "PREVIEW"]
<1>5. ASSUME NEW b \in BatchIds, batches[b] = None, batches' = [batches EXCEPT ![b] = new]
      PROVE  HeavenInv'
  <2>1. batches'[b] = new /\ \A c \in BatchIds \ {b} : batches'[c] = batches[c]
    BY <1>1, <1>5 DEF ImportType
  <2>2. /\ new.file = file[p] /\ new.sha = loc[p].got
        /\ new.family = loc[p].snap.family /\ new.status = "PREVIEW"
    OBVIOUS
  <2> HIDE DEF new
  <2>3. ASSUME new.family = "HEAVEN", NEW c \in BatchIds \ {b}
        PROVE  ~HeavenBatch(c, new.file, new.sha)
    BY <1>2, <2>2, <2>3 DEF HeavenInv, FoundNone
  <2>4. HeavenUnique'
    <3> SUFFICES ASSUME NEW c \in BatchIds, NEW d \in BatchIds, c # d,
                        HeavenBatch(c, batches[c].file, batches[c].sha)',
                        HeavenBatch(d, batches[c].file, batches[c].sha)'
                 PROVE  FALSE
      BY DEF HeavenUnique
    <3>1. CASE c = b
      BY <2>1, <2>3, <3>1 DEF HeavenBatch
    <3>2. CASE d = b
      BY <2>1, <2>3, <3>2 DEF HeavenBatch
    <3>3. CASE c # b /\ d # b
      BY <2>1, <3>3 DEF HeavenBatch, HeavenInv, HeavenUnique
    <3> QED
      BY <3>1, <3>2, <3>3
  <2>5. ASSUME NEW q \in Workers \ {p} PROVE FoundNone(q)'
    <3> SUFFICES ASSUME pc[q] = "xpreview", loc[q].snap.family = "HEAVEN",
                        NEW c \in BatchIds
                 PROVE  ~HeavenBatch(c, file[q], loc[q].got)'
      BY <1>1 DEF FoundNone, HeavenBatch, OnlyLocals
    <3>1. ~HeavenBatch(c, file[q], loc[q].got)
      BY DEF HeavenInv, FoundNone
    <3>2. file'[q] = file[q] /\ loc'[q] = loc[q]
      BY <1>1 DEF OnlyLocals
    <3>3. file[q] # file[p]
      <4>1. Executing(p) /\ Executing(q)
        BY <1>2 DEF Executing, HasSnap
      <4> QED
        BY <4>1 DEF HolderInv, HolderOf
    <3> QED
      BY <2>1, <2>2, <3>1, <3>2, <3>3 DEF HeavenBatch
  <2> QED
    BY <1>3, <2>4, <2>5 DEF HeavenInv
<1> QED
  BY <1>4, <1>5 DEF ExecPreview

LEMMA HeavenNext == TypeInv /\ HolderInv /\ HeavenInv /\ [Next]_vars => HeavenInv'
<1> SUFFICES ASSUME TypeInv, HolderInv, HeavenInv, [Next]_vars PROVE HeavenInv'
  OBVIOUS
<1>1. ASSUME NEW p \in Pollers, Scan(p) PROVE HeavenInv'
  <2>1. CASE ListFolder(p)
    BY <2>1, HeavenOther DEF ListFolder, imports
  <2>2. CASE ~ListFolder(p)
    <3>1. /\ p \in Workers /\ OnlyLocals(p) /\ UNCHANGED batches /\ pc'[p] # "xpreview"
      BY <1>1, <2>2, ScanLeads DEF Workers
    <3> QED
      BY <3>1, HeavenQuiet DEF FoundNone
  <2> QED
    BY <2>1, <2>2
<1>2. ASSUME NEW p \in Workers, Work(p) PROVE HeavenInv'
  <2>1. CASE ExecPreview(p)
    BY <2>1, HeavenMade
  <2>2. CASE ~ExecPreview(p)
    <3>1. UNCHANGED batches
      BY <1>2, <2>2 DEF Work, TryLock, ExecRead, ExecList, ExecFetch, ExecDuplicate, ExecFind,
                        ResetRead, TransitionRead, Store, FailCount, Leave, imports
    <3>2. /\ OnlyLocals(p)
          /\ pc'[p] = "xpreview" => \/ ExecFind(p) /\ loc' = loc
                                    \/ loc'[p].snap.family # "HEAVEN"
      BY <1>2, WorkLeads
    <3>3. ExecFind(p) => file' = file
      BY DEF ExecFind, Keep, SetLoc
    <3>4. FoundNone(p)'
      <4> SUFFICES ASSUME pc'[p] = "xpreview", loc'[p].snap.family = "HEAVEN", NEW b \in BatchIds
                   PROVE  ~HeavenBatch(b, file[p], loc[p].got)'
        BY DEF FoundNone, HeavenBatch
      <4>1. ExecFind(p) /\ loc' = loc /\ file' = file
        BY <3>2, <3>3
      <4>2. ~HeavenBatch(b, file[p], loc[p].got)
        BY <4>1, HeavenFind
      <4> QED
        BY <3>1, <4>1, <4>2 DEF HeavenBatch
    <3> QED
      BY <3>1, <3>2, <3>4, HeavenQuiet
  <2> QED
    BY <2>1, <2>2
<1>3. ASSUME NEW p \in Workers, NEW f \in Files, CliStart(p, f) \/ ResetStart(p, f)
      PROVE  HeavenInv'
  <2>1. OnlyLocals(p) /\ UNCHANGED batches /\ pc'[p] # "xpreview"
    BY <1>3, StartLeads
  <2> QED
    BY <2>1, HeavenQuiet DEF FoundNone
<1>4. ASSUME NEW p \in Workers, Crash(p) PROVE HeavenInv'
  <2>1. OnlyLocals(p) /\ UNCHANGED batches /\ pc'[p] # "xpreview"
    BY <1>4, CrashLeads
  <2> QED
    BY <2>1, HeavenQuiet DEF FoundNone
<1>5. ASSUME NEW b \in BatchIds, Confirm(b) \/ Reopen(b) PROVE HeavenInv'
  <2>1. UNCHANGED local
    BY <1>5 DEF Confirm, Reopen
  <2>2. \A c \in BatchIds :
           batches'[c] # None =>
             /\ batches[c] # None
             /\ batches'[c].file = batches[c].file /\ batches'[c].sha = batches[c].sha
             /\ batches'[c].family = batches[c].family
             /\ batches[c].status = "CANCELLED" => batches'[c].status = "CANCELLED"
    BY <1>5, ConfirmLeads
  <2> QED
    BY <2>1, <2>2, HeavenOther
<1>6. ASSUME UNCHANGED local, UNCHANGED batches PROVE HeavenInv'
  BY <1>6, HeavenOther
<1>7. ASSUME Human PROVE HeavenInv'
  <2>1. ASSUME NEW f \in Files, DriveEdit(f) \/ DriveMove(f) \/ DriveRename(f)
        PROVE  HeavenInv'
    BY <1>6, <2>1 DEF DriveEdit, DriveMove, DriveRename, imports
  <2>2. ASSUME NEW g \in Folders, SetMapping(g) PROVE HeavenInv'
    BY <1>6, <2>2 DEF SetMapping, imports
  <2> QED
    BY <1>3, <1>5, <1>7, <2>1, <2>2 DEF Human, Workers
<1>8. ASSUME NEW f \in Files, RetryDue(f) PROVE HeavenInv'
  BY <1>6, <1>8 DEF RetryDue, imports
<1>9. ASSUME NEW b \in BatchIds, Sync(b) \/ SyncCrash(b) PROVE HeavenInv'
  BY <1>6, <1>9 DEF Sync, SyncRead, SyncLock, SyncFind, SyncWrite, SyncCrash, imports
<1>10. CASE UNCHANGED vars
  BY <1>6, <1>10 DEF vars, imports
<1> QED
  BY <1>1, <1>2, <1>4, <1>7, <1>8, <1>9, <1>10 DEF Next, Failures

(* A content of a file has one Heaven batch that is not cancelled, beside  *)
(* whatever CTI and Town do on other mappings, with automatic execution on *)
(* or off, through crashes at any step (createHeavenPreview).              *)
THEOREM HeavenContentsAreUnique == Spec => []HeavenUnique
<1>1. HeavenInv => HeavenUnique
  BY DEF HeavenInv
<1> QED
  BY <1>1, TypeCorrect, HolderInit, HolderNext, HeavenInit, HeavenNext, PTL DEF Spec

-----------------------------------------------------------------------------
(* Where every mapping is Heaven's, every batch is. *)

FamilyInv ==
  /\ \A p \in Workers : HasSnap(p) => loc[p].snap.family = "HEAVEN"
  /\ \A b \in BatchIds : batches[b] # None => batches[b].family = "HEAVEN"

LEMMA FamilyInit == Init => FamilyInv
BY DEF Init, FamilyInv, HasSnap

LEMMA FamilyStep ==
  ASSUME FamilyInv, NEW p \in Workers, OnlyLocals(p), UNCHANGED batches,
         HasSnap(p)' => loc'[p].snap.family = "HEAVEN"
  PROVE  FamilyInv'
BY DEF FamilyInv, HasSnap, OnlyLocals

LEMMA FamilyNext ==
  ASSUME \A g \in Folders : Family[g] = "HEAVEN"
  PROVE  TypeInv /\ FamilyInv /\ [Next]_vars => FamilyInv'
<1> SUFFICES ASSUME TypeInv, FamilyInv, [Next]_vars PROVE FamilyInv'
  OBVIOUS
<1>1. ASSUME NEW p \in Pollers, Scan(p) PROVE FamilyInv'
  <2>1. CASE ListFolder(p)
    BY <2>1 DEF ListFolder, FamilyInv, HasSnap, imports, local
  <2>2. CASE ~ListFolder(p)
    BY <1>1, <2>2, ScanLeads, FamilyStep DEF Workers
  <2> QED
    BY <2>1, <2>2
<1>2. ASSUME NEW p \in Workers, Work(p) PROVE FamilyInv'
  <2>1. CASE ExecPreview(p)
    <3>1. ImportType /\ LocalType /\ OnlyLocals(p)
      BY <1>2, TypeGroups, WorkLeads DEF TypeInv
    <3>2. HasSnap(p) /\ ~HasSnap(p)'
      <4>1. pc[p] = "xpreview" /\ pc'[p] \in {"toReview", "failCount"}
        BY <2>1, <3>1 DEF ExecPreview, Goto, LocalType
      <4> QED
        BY <4>1 DEF HasSnap
    <3>3. loc[p].snap.family = "HEAVEN"
      BY <3>2 DEF FamilyInv
    <3>4. \A b \in BatchIds : batches'[b] # None =>
            batches'[b] = batches[b] \/ batches'[b].family = "HEAVEN"
      <4> DEFINE new == [file |-> file[p], mtime |-> loc[p].snap.mtime, sha |-> loc[p].got,
                         family |-> loc[p].snap.family, status |-> "PREVIEW"]
      <4>1. new.family = "HEAVEN"
        BY <3>3
      <4>2. \/ batches' = batches
            \/ \E b \in BatchIds : batches' = [batches EXCEPT ![b] = new]
        BY <2>1 DEF ExecPreview
      <4> HIDE DEF new
      <4> QED
        BY <3>1, <4>1, <4>2 DEF ImportType
    <3> QED
      BY <3>1, <3>2, <3>4 DEF FamilyInv, HasSnap, OnlyLocals
  <2>2. CASE ~ExecPreview(p)
    <3>1. UNCHANGED batches
      BY <1>2, <2>2 DEF Work, TryLock, ExecRead, ExecList, ExecFetch, ExecDuplicate, ExecFind,
                        ResetRead, TransitionRead, Store, FailCount, Leave, imports
    <3>2. ExecRead(p) => ~HasSnap(p)' \/ loc'[p].snap.family = "HEAVEN"
      <4> SUFFICES ASSUME ExecRead(p), HasSnap(p)' PROVE loc'[p].snap.family = "HEAVEN"
        OBVIOUS
      <4>1. LocalType /\ ShapeOf(p) /\ RowsMapped
        BY TypeGroups DEF TypeInv, Shape
      <4>2. /\ pc[p] = "xread" /\ pc'[p] \in {"xlist", "leave"} /\ pc'[p] # "leave"
        BY <4>1 DEF ExecRead, Goto, LocalType, HasSnap
      <4>3. file[p] \in Files /\ loc[p] \in Local
        BY <4>1, <4>2 DEF ShapeOf, LocalType
      <4> DEFINE snap == [folder |-> meta[file[p]].folder, mtime |-> meta[file[p]].mtime,
                          sha |-> meta[file[p]].sha, family |-> FamilyOf(file[p])]
      <4>4. /\ status[file[p]] = "READY"
            /\ loc' = [loc EXCEPT ![p] = [loc[p] EXCEPT !.snap = snap]]
        BY <4>1, <4>2 DEF ExecRead, Goto, SetLoc, LocalType
      <4>5. loc'[p].snap.family = FamilyOf(file[p])
        <5>1. snap.family = FamilyOf(file[p])
          OBVIOUS
        <5> HIDE DEF snap
        <5> QED
          BY <4>1, <4>3, <4>4, <5>1 DEF LocalType, Local
      <4>6. meta[file[p]].folder \in Folders /\ meta[file[p]].folder # None
        BY <4>1, <4>3, <4>4, PipelineAssumption DEF RowsMapped, Absent
      <4> QED
        BY <4>5, <4>6 DEF FamilyOf
    <3> QED
      BY <1>2, <3>1, <3>2, WorkLeads, FamilyStep DEF FamilyInv
  <2> QED
    BY <2>1, <2>2
<1>3. ASSUME NEW p \in Workers, NEW f \in Files, CliStart(p, f) \/ ResetStart(p, f)
      PROVE  FamilyInv'
  <2>1. OnlyLocals(p) /\ UNCHANGED batches /\ pc'[p] \in {"xlock", "resetLock"}
    BY <1>3, StartLeads
  <2> QED
    BY <2>1, FamilyStep DEF HasSnap
<1>4. ASSUME NEW p \in Workers, Crash(p) PROVE FamilyInv'
  <2>1. OnlyLocals(p) /\ UNCHANGED batches /\ pc'[p] = "off"
    BY <1>4, CrashLeads
  <2> QED
    BY <2>1, FamilyStep DEF HasSnap
<1>5. ASSUME NEW b \in BatchIds, Confirm(b) \/ Reopen(b) PROVE FamilyInv'
  <2>1. UNCHANGED local
    BY <1>5 DEF Confirm, Reopen
  <2>2. \A c \in BatchIds : batches'[c] # None =>
             batches[c] # None /\ batches'[c].family = batches[c].family
    BY <1>5, ConfirmLeads
  <2> QED
    BY <2>1, <2>2 DEF FamilyInv, HasSnap, local
<1>6. ASSUME UNCHANGED local, UNCHANGED batches PROVE FamilyInv'
  BY <1>6 DEF FamilyInv, HasSnap, local
<1>7. ASSUME Human PROVE FamilyInv'
  <2>1. ASSUME NEW f \in Files, DriveEdit(f) \/ DriveMove(f) \/ DriveRename(f)
        PROVE  FamilyInv'
    BY <1>6, <2>1 DEF DriveEdit, DriveMove, DriveRename, imports
  <2>2. ASSUME NEW g \in Folders, SetMapping(g) PROVE FamilyInv'
    BY <1>6, <2>2 DEF SetMapping, imports
  <2> QED
    BY <1>3, <1>5, <1>7, <2>1, <2>2 DEF Human, Workers
<1>8. ASSUME NEW f \in Files, RetryDue(f) PROVE FamilyInv'
  BY <1>6, <1>8 DEF RetryDue, imports
<1>9. ASSUME NEW b \in BatchIds, Sync(b) \/ SyncCrash(b) PROVE FamilyInv'
  BY <1>6, <1>9 DEF Sync, SyncRead, SyncLock, SyncFind, SyncWrite, SyncCrash, imports
<1>10. CASE UNCHANGED vars
  BY <1>6, <1>10 DEF vars, imports
<1> QED
  BY <1>1, <1>2, <1>4, <1>7, <1>8, <1>9, <1>10 DEF Next, Failures

(* Where every mapping is Heaven's, no content of a file ever gets a       *)
(* second preview, with automatic execution on or off, through crashes at  *)
(* any step, edits, retries and reopened batches: the executor hands the   *)
(* first one back (createHeavenPreview, withAdvisoryLock).                 *)
THEOREM HeavenPreviewsAreUnique ==
  ASSUME \A g \in Folders : Family[g] = "HEAVEN" PROVE Spec => []OnePreviewPerContent
<1>1. TypeInv /\ FamilyInv /\ [Next]_vars => FamilyInv'
  BY FamilyNext
<1>2. HeavenInv /\ FamilyInv => OnePreviewPerContent
  BY DEF HeavenInv, HeavenUnique, HeavenBatch, FamilyInv, OnePreviewPerContent
<1> QED
  BY <1>1, <1>2, TypeCorrect, HolderInit, HolderNext, HeavenInit, HeavenNext, FamilyInit, PTL DEF Spec

=============================================================================
